---- MODULE Spec2Model ----
(***************************************************************************)
(* Model of the block editor of baux-wiki (src/components/PageContent.tsx) *)
(* together with the page list (DocumentList), the Home page state and the *)
(* block / document API routes it talks to.                                *)
(*                                                                         *)
(* Markup strings are sequences of tokens (text, open tag, close tag, void *)
(* element).  A DOM surface is a well-nested token sequence whose          *)
(* inline-image wrappers additionally carry a node identity (nid); the     *)
(* serialisation (innerHTML) of a surface forgets the node identities.     *)
(***************************************************************************)
EXTENDS Integers, Sequences, FiniteSets, TLC

\* ------------------------------------------------------------------ bounds
MaxBlocks   == 2   \* block ids the server ever allocates
MaxInFlight == 2   \* requests in flight at the same time
MaxText     == 1   \* text tokens an editing surface holds
MaxUploads  == 1   \* inline-image files uploaded
MaxSanItems == 2   \* top-level items of a sanitizer input
MaxFormat   == 1   \* formatting elements the toolbar puts on one surface
MaxFiles    == 2   \* files chosen at once for an attachment block
MaxFetches   == 4   \* requests in flight while the selected page changes

\* ------------------------------------------------------- program constants
SELECTION_MARKER_ID == "baux-selection-marker"
Handles   == <<"nw", "n", "ne", "w", "e", "sw", "s", "se">>
WrapModes == {"left", "right", "center", "inline", "tight-left", "tight-right"}
NULL      == 0    \* null: no page, no block, no node
Detached  == -1   \* a node that is no longer part of the editing surface

\* ------------------------------------------------------------------ markup
Tok(k, tag, id, cls, wrap, file, pos, nid) ==
    [k |-> k, tag |-> tag, id |-> id, cls |-> cls, wrap |-> wrap,
     file |-> file, pos |-> pos, nid |-> nid, href |-> "", style |-> ""]

Txt(c)      == Tok("text", c, "", {}, "", 0, "", 0)
Open(tag)   == Tok("open", tag, "", {}, "", 0, "", 0)
Close(tag)  == Tok("close", tag, "", {}, "", 0, "", 0)
MarkerOpen  == Tok("open", "span", SELECTION_MARKER_ID, {}, "", 0, "", 0)
HandleOpen(pos) == Tok("open", "span", "", {"resize-handle"}, "", 0, pos, 0)
WrapperOpen(file, wrap, st, nid) ==
    Tok("open", "span", "", {"inline-image"} \cup st, wrap, file, "", nid)
Img(file)   == Tok("void", "img", "", {}, "", file, "", 0)
\* <a href="url" target="_blank" rel="noopener noreferrer" class="...">
Anchor(url) == [Tok("open", "a", "", {"new-context", "noopener", "noreferrer"},
                    "", 0, "", 0) EXCEPT !.href = url]
\* <a href="url"> as an author wrote it
PlainAnchor(url) == [Tok("open", "a", "", {}, "", 0, "", 0) EXCEPT !.href = url]
\* <mark class="search-highlight ...">
HighlightOpen    == Tok("open", "mark", "", {"search-highlight"}, "", 0, "", 0)
Space       == Txt(" ")
\* the runs of text that https?:\/\/[^\s<"]+ matches as a whole
Urls        == {"https://example.com/x", "http://example.org"}
NoTerm      == ""   \* highlightTerm is null

IsOpen(t)    == t.k = "open"
IsClose(t)   == t.k = "close"
IsMarker(t)  == t.k = "open" /\ t.id = SELECTION_MARKER_ID
IsHandle(t)  == t.k = "open" /\ "resize-handle" \in t.cls
IsWrapper(t) == t.k = "open" /\ "inline-image" \in t.cls
IsUrl(t)     == t.k = "text" /\ t.tag \in Urls
IsMark(t)    == t.k = "open" /\ "search-highlight" \in t.cls

RECURSIVE HandleToks(_)
HandleToks(i) ==
    IF i > Len(Handles) THEN <<>>
    ELSE <<HandleOpen(Handles[i]), Close("span")>> \o HandleToks(i + 1)

\* the element insertImageIntoEditor builds: wrapper, eight handles, image
NewWrapper(file, nid) ==
    <<WrapperOpen(file, "left", {}, nid)>> \o HandleToks(1)
        \o <<Img(file), Close("span")>>

\* a wrapper as it is stored once sanitized
StoredWrapper(file, wrap) ==
    <<WrapperOpen(file, wrap, {}, 0), Img(file), Close("span")>>

\* index of the close token matching the open token at position i of a
\* well-nested sequence (0 when there is none)
RECURSIVE MatchFrom(_, _, _)
MatchFrom(s, j, depth) ==
    IF j > Len(s) THEN 0
    ELSE IF IsOpen(s[j]) THEN MatchFrom(s, j + 1, depth + 1)
    ELSE IF IsClose(s[j]) THEN
         (IF depth = 0 THEN j ELSE MatchFrom(s, j + 1, depth - 1))
    ELSE MatchFrom(s, j + 1, depth)

MatchClose(s, i) == MatchFrom(s, i + 1, 0)

RECURSIVE CloseAll(_)
CloseAll(stack) ==
    IF stack = <<>> THEN <<>>
    ELSE <<Close(Head(stack))>> \o CloseAll(Tail(stack))

RECURSIVE PopTo(_, _)
\* number of stack entries popped by an end tag `tag` (stack top first)
PopTo(stack, tag) ==
    IF Head(stack) = tag THEN 1 ELSE 1 + PopTo(Tail(stack), tag)

InStack(stack, tag) == \E i \in 1..Len(stack) : stack[i] = tag

\* The HTML fragment parser behind `element.innerHTML = html`: an end tag
\* that matches no open element is dropped, an end tag that matches an
\* element below the current one closes everything above it, and elements
\* still open at the end of the input are closed.
RECURSIVE ParseFrom(_, _, _)
ParseFrom(s, i, stack) ==
    IF i > Len(s) THEN CloseAll(stack)
    ELSE LET t == s[i] IN
         IF IsOpen(t) THEN <<t>> \o ParseFrom(s, i + 1, <<t.tag>> \o stack)
         ELSE IF IsClose(t) THEN
              IF InStack(stack, t.tag)
              THEN LET n == PopTo(stack, t.tag) IN
                   CloseAll(SubSeq(stack, 1, n))
                       \o ParseFrom(s, i + 1, SubSeq(stack, n + 1, Len(stack)))
              ELSE ParseFrom(s, i + 1, stack)
         ELSE <<t>> \o ParseFrom(s, i + 1, stack)

Parse(html) == ParseFrom(html, 1, <<>>)

\* element.innerHTML read back: the serialisation carries no node identity
InnerHTML(dom) == [i \in 1..Len(dom) |-> [dom[i] EXCEPT !.nid = 0]]

\* ------------------------------------------------------------- sanitizer
\* temp.querySelectorAll('.resize-handle').forEach(el => el.remove())
RECURSIVE RemoveHandlesFrom(_, _)
RemoveHandlesFrom(dom, i) ==
    IF i > Len(dom) THEN <<>>
    ELSE IF IsHandle(dom[i])
         THEN RemoveHandlesFrom(dom, MatchClose(dom, i) + 1)
         ELSE <<dom[i]>> \o RemoveHandlesFrom(dom, i + 1)

\* a plausible slip: querySelector instead of querySelectorAll
RECURSIVE RemoveFirstHandleFrom(_, _)
RemoveFirstHandleFrom(dom, i) ==
    IF i > Len(dom) THEN <<>>
    ELSE IF IsHandle(dom[i])
         THEN SubSeq(dom, MatchClose(dom, i) + 1, Len(dom))
         ELSE <<dom[i]>> \o RemoveFirstHandleFrom(dom, i + 1)

RemoveFirstHandle(dom) == RemoveFirstHandleFrom(dom, 1)

RemoveHandles(dom) == RemoveHandlesFrom(dom, 1)

\* a plausible slip: the dragging class is forgotten
RemoveSelectedOnly(dom) ==
    [i \in 1..Len(dom) |->
        IF IsWrapper(dom[i])
        THEN [dom[i] EXCEPT !.cls = @ \ {"selected"}]
        ELSE dom[i]]

\* querySelectorAll('.inline-image.selected') / ('.inline-image.dragging')
\* followed by classList.remove on every match
RemoveStateClasses(dom) ==
    [i \in 1..Len(dom) |->
        IF IsWrapper(dom[i])
        THEN [dom[i] EXCEPT !.cls = (@ \ {"selected"}) \ {"dragging"}]
        ELSE dom[i]]

cleanContentForSave(html) ==
    InnerHTML(RemoveStateClasses(RemoveHandles(Parse(html))))

\* ------------------------------------------------------ what markup holds
HasMarker(s)  == \E i \in 1..Len(s) : IsMarker(s[i])
HasHandle(s)  == \E i \in 1..Len(s) : IsHandle(s[i])
HasStateClass(s) ==
    \E i \in 1..Len(s) :
        IsWrapper(s[i]) /\ (s[i].cls \cap {"selected", "dragging"}) # {}
HasTransient(s) == HasMarker(s) \/ HasHandle(s) \/ HasStateClass(s)

FormatTags == {"b", "i", "u", "a", "font"}
IsText(t)      == t.k = "text"
IsFormatTag(t) == t.k \in {"open", "close"} /\ t.tag \in FormatTags
TextOf(s)      == SelectSeq(s, IsText)
FormatOf(s)    == SelectSeq(s, IsFormatTag)
WrappersOf(s)  ==
    LET w == SelectSeq(s, IsWrapper)
    IN  [i \in 1..Len(w) |-> <<w[i].file, w[i].wrap>>]
ImagesOf(s)    == SelectSeq(s, LAMBDA t : t.k = "void")

\* =================================================================== state
VARIABLES
    srvDocs,          \* server: ids of the documents that exist
    srvBlocks,        \* server: the stored blocks (set of records)
    srvNextId,        \* server: id the next created block gets
    srvNextFile,      \* server: id the next uploaded file gets
    documents,        \* DocumentList: `documents` state (ids in the tree)
    selectedPageId,   \* Home: `selectedPageId` state (NULL = none)
    pendingBlockId,   \* Home: `pendingBlockId` state (NULL = none)
    highlightTerm,    \* Home: `highlightTerm` state (NoTerm = null)
    scrolledTo,       \* the block element scrollIntoView moved to last
    page,             \* PageContent: `page` state (NoPage = null)
    loading,          \* PageContent: `loading` state
    editingBlockId,   \* PageContent: `editingBlockId` state
    editContent,      \* PageContent: `editContent` state
    ringed,           \* block elements that carry the highlight ring
    timers,           \* setTimeout callbacks that have not run yet
    editorDom,        \* the editing surface (editorRef.current)
    selectedImage,    \* PageContent: `selectedImage` state (a node id)
    imageWrap,        \* PageContent: `imageWrap` state
    dragData,         \* dataTransfer 'text/html' of an image drag (<<>>: none)
    isResizing,       \* isResizingRef.current
    listeners,        \* the resize listeners attached to `document`
    viewDom,          \* the view-mode surfaces (blockRefs.current[id])
    viewEditable,     \* contentEditable of every view-mode surface
    toolbarShown,     \* floatingToolbarRef.current.style.display = 'flex'
    pickers,          \* which of showColorPicker / showFontSizeDropdown are true
    savedText,        \* savedSelectionTextRef.current is not ''
    selectedBlockIdRef, \* selectedBlockIdRef.current
    savedRange,       \* savedRangeRef.current
    net,              \* requests and responses in flight
    lastOp,           \* the handler that ran last and what it showed
    crashed,          \* a render threw: the application is gone
    sanIn, sanOut, sanOut2, sanPc   \* a pure function under test: its
                                    \* input, its results, the position

srvVars   == <<srvDocs, srvBlocks, srvNextId, srvNextFile>>
linkVars  == <<pendingBlockId, scrolledTo>>
homeVars  == <<documents, selectedPageId, pendingBlockId, highlightTerm,
               scrolledTo>>
blockVars == <<page, loading, editingBlockId, editContent, ringed, timers>>
gestureVars == <<isResizing, listeners>>
editVars  == <<editorDom, selectedImage, imageWrap, dragData, isResizing,
               listeners>>
viewVars  == <<viewDom, viewEditable>>
toolVars  == <<toolbarShown, pickers, savedText, selectedBlockIdRef, savedRange>>
sanVars   == <<sanIn, sanOut, sanOut2, sanPc>>
vars == <<srvDocs, srvBlocks, srvNextId, srvNextFile, documents,
          selectedPageId, pendingBlockId, highlightTerm, scrolledTo,
          ringed, timers, page, loading, editingBlockId, editContent,
          editorDom, selectedImage, imageWrap, dragData, isResizing,
          listeners, viewDom,
          viewEditable,
          toolbarShown, pickers, savedText,
          selectedBlockIdRef, savedRange, net, lastOp, crashed,
          sanIn, sanOut, sanOut2, sanPc>>

\* ------------------------------------------------------------ data shapes
\* a ContentBlock; atts: the number of entries of block.attachments
BlkWith(id, content, order, atts) ==
    [id |-> id, content |-> content, order |-> order, atts |-> atts]
Blk(id, content, order) == BlkWith(id, content, order, 0)
NoBlock == Blk(NULL, <<>>, 0)
NoPage  == [id |-> NULL, blocks |-> <<>>]
NoRange == [block |-> NULL, kind |-> "none", live |-> FALSE]

BlockIds(pg) == {pg.blocks[i].id : i \in 1..Len(pg.blocks)}
BlockOf(pg, b) ==
    IF b \in BlockIds(pg)
    THEN pg.blocks[CHOOSE i \in 1..Len(pg.blocks) : pg.blocks[i].id = b]
    ELSE NoBlock

\* page.blocks.map(b => b.id === id ? updated : b)
ReplaceBlock(pg, id, updated) ==
    [pg EXCEPT !.blocks =
        [i \in 1..Len(pg.blocks) |->
            IF pg.blocks[i].id = id THEN updated ELSE pg.blocks[i]]]

\* page.blocks.filter(b => b.id !== id)
FilterBlock(pg, id) ==
    [pg EXCEPT !.blocks = SelectSeq(pg.blocks, LAMBDA b : b.id # id)]

Op(op, st, prompt, confirmed, alert) ==
    [op |-> op, st |-> st, prompt |-> prompt, confirmed |-> confirmed,
     alert |-> alert]

\* a request in flight: what was sent and the values its continuation
\* closed over (snap: `page`, sel: `selectedImage` / `selectedPageId`)
\* seq tells apart two requests that carry the same values
Request(kind, doc, block, content, order, via, nsan, snap, sel, seq) ==
    [kind |-> kind, doc |-> doc, block |-> block,
     content |-> content, order |-> order, via |-> via, nsan |-> nsan,
     snap |-> snap, sel |-> sel, orphan |-> FALSE, seq |-> seq,
     files |-> 0, file |-> 0]

FreshSeq ==
    CHOOSE n \in 1..(Cardinality(net) + 1) :
        /\ \A m \in net : m.seq # n
        /\ \A k \in 1..(n - 1) : \E m \in net : m.seq = k

Msg(kind, doc, block, content, order, via, nsan, snap, sel) ==
    Request(kind, doc, block, content, order, via, nsan, snap, sel, FreshSeq)

PageKinds == {"getDoc", "createBlock", "updateBlock", "deleteBlock",
              "upload", "deleteFile", "createForFiles", "uploadFiles",
              "uploadToBlock"}

\* ================================================================== server
SrvBlk(id, doc, content, order) ==
    [id |-> id, doc |-> doc, content |-> content, order |-> order,
     atts |-> 0]

\* include: { blocks: { orderBy: { order: 'asc' } } }: every sequence of the
\* document's blocks in ascending order (blocks of equal order in any order)
OrderedBlocks(S) ==
    {s \in [1..Cardinality(S) -> S] :
        /\ \A i, j \in 1..Cardinality(S) : i # j => s[i] # s[j]
        /\ \A i \in 1..(Cardinality(S) - 1) : s[i].order <= s[i + 1].order}

AsClient(s) ==
    [i \in 1..Len(s) |->
        BlkWith(s[i].id, s[i].content, s[i].order, s[i].atts)]

\* what a request comes back with: the status seen by fetch ("ok", "fail"
\* for a non-OK status, "reject" when fetch itself rejects), the server
\* state it leaves, and the payload
Reply(st, docs, blocks, nextId, nextFile, rblock, rpage, rdocs, rfile) ==
    [st |-> st, docs |-> docs, blocks |-> blocks, nextId |-> nextId,
     nextFile |-> nextFile, rblock |-> rblock, rpage |-> rpage,
     rdocs |-> rdocs, rfile |-> rfile]

Failed(st) ==
    Reply(st, srvDocs, srvBlocks, srvNextId, srvNextFile,
          NoBlock, NoPage, {}, 0)

\* the catch branch of a route (status 500), or the network failing
SrvError == {Failed("fail"), Failed("reject")}

\* GET /api/documents
SrvGetDocs(m) ==
    {Reply("ok", srvDocs, srvBlocks, srvNextId, srvNextFile,
           NoBlock, NoPage, srvDocs, 0)}

\* GET /api/documents/[id]
SrvGetDoc(m) ==
    IF m.doc \in srvDocs
    THEN {Reply("ok", srvDocs, srvBlocks, srvNextId, srvNextFile, NoBlock,
                [id |-> m.doc, blocks |-> AsClient(s)], {}, 0) :
             s \in OrderedBlocks({b \in srvBlocks : b.doc = m.doc})}
    ELSE {Failed("fail")}

\* POST /api/blocks
SrvCreateBlock(m) ==
    IF m.doc \in srvDocs
    THEN {Reply("ok", srvDocs,
                srvBlocks \cup {SrvBlk(srvNextId, m.doc, m.content, m.order)},
                srvNextId + 1, srvNextFile,
                Blk(srvNextId, m.content, m.order), NoPage, {}, 0)}
    ELSE {Failed("fail")}

\* PUT /api/blocks/[id]
SrvUpdateBlock(m) ==
    IF \E b \in srvBlocks : b.id = m.block
    THEN LET old == CHOOSE b \in srvBlocks : b.id = m.block
             new == [old EXCEPT !.content = m.content]
         IN  {Reply("ok", srvDocs, (srvBlocks \ {old}) \cup {new}, srvNextId,
                    srvNextFile,
                    BlkWith(new.id, new.content, new.order, new.atts),
                    NoPage, {}, 0)}
    ELSE {Failed("fail")}

\* DELETE /api/blocks/[id]
SrvDeleteBlock(m) ==
    IF \E b \in srvBlocks : b.id = m.block
    THEN {Reply("ok", srvDocs, {b \in srvBlocks : b.id # m.block}, srvNextId,
                srvNextFile, NoBlock, NoPage, {}, 0)}
    ELSE {Failed("fail")}

\* DELETE /api/documents/[id] ("This will also delete all ... content blocks")
SrvDeletePage(m) ==
    IF m.doc \in srvDocs
    THEN {Reply("ok", srvDocs \ {m.doc}, {b \in srvBlocks : b.doc # m.doc},
                srvNextId, srvNextFile, NoBlock, NoPage, {}, 0)}
    ELSE {Failed("fail")}

\* POST /api/uploads: the file is stored under the next file id
SrvUpload(m) ==
    {Reply("ok", srvDocs, srvBlocks, srvNextId, srvNextFile + 1,
           NoBlock, NoPage, {}, srvNextFile)}

\* POST /api/uploads with a blockId: the files become attachments of the
\* block and are returned (rfile: how many)
SrvUploadFiles(m) ==
    IF \E b \in srvBlocks : b.id = m.block
    THEN LET old == CHOOSE b \in srvBlocks : b.id = m.block
             new == [old EXCEPT !.atts = @ + m.files]
         IN  {Reply("ok", srvDocs, (srvBlocks \ {old}) \cup {new}, srvNextId,
                    srvNextFile, NoBlock, NoPage, {}, m.files)}
    ELSE {Failed("fail")}

\* POST /api/uploads with a blockId and one file: the file becomes an
\* attachment of the block and is returned
SrvUploadToBlock(m) ==
    IF \E b \in srvBlocks : b.id = m.block
    THEN LET old == CHOOSE b \in srvBlocks : b.id = m.block
             new == [old EXCEPT !.atts = @ + 1]
         IN  {Reply("ok", srvDocs, (srvBlocks \ {old}) \cup {new}, srvNextId,
                    srvNextFile, NoBlock, NoPage, {}, 1)}
    ELSE {Failed("fail")}

\* DELETE /api/uploads/:id: the file is deleted
SrvDeleteFile(m) ==
    {Reply("ok", srvDocs, srvBlocks, srvNextId, srvNextFile,
           NoBlock, NoPage, {}, m.file)}

\* every way the request m can come back
Replies(m) ==
    SrvError \cup
    (CASE m.kind = "getDocs"     -> SrvGetDocs(m)
       [] m.kind = "getDoc"      -> SrvGetDoc(m)
       [] m.kind = "createBlock" -> SrvCreateBlock(m)
       [] m.kind = "updateBlock" -> SrvUpdateBlock(m)
       [] m.kind = "deleteBlock" -> SrvDeleteBlock(m)
       [] m.kind = "deletePage"  -> SrvDeletePage(m)
       [] m.kind = "upload"      -> SrvUpload(m)
       [] m.kind = "createForFiles" -> SrvCreateBlock(m)
       [] m.kind = "uploadFiles" -> SrvUploadFiles(m)
       [] m.kind = "uploadToBlock" -> SrvUploadToBlock(m)
       [] m.kind = "deleteFile"  -> SrvDeleteFile(m)
       [] OTHER                  -> {})

\* the server side of a completed request
Served(m, r) ==
    /\ r \in Replies(m)
    /\ srvDocs' = r.docs /\ srvBlocks' = r.blocks
    /\ srvNextId' = r.nextId /\ srvNextFile' = r.nextFile

\* =============================================================== rendering
AllBlockIds == 1..MaxBlocks
NoViews == [b \in AllBlockIds |-> <<>>]
NoEdits == [b \in AllBlockIds |-> FALSE]

\* the block list is rendered once loading is over and a document is held
Shown(pg, ld) == ~ld /\ pg # NoPage
\* blocks rendered by the view branch / the edit branch of the block list
ViewRendered(pg, e, ld) ==
    IF Shown(pg, ld) THEN BlockIds(pg) \ {e} ELSE {}
EditorRendered(pg, e, ld) == Shown(pg, ld) /\ e \in BlockIds(pg)

\* dangerouslySetInnerHTML of a view-mode block: the content, or the
\* placeholder paragraph when the content is empty
Placeholder == <<Open("p"), Txt("Empty block"), Close("p")>>

\* linkifyContent(html): /(?<!href=")(?<!>)(https?:\/\/[^\s<"]+)/gi matches
\* a URL in text unless the character before it is the `>` that ends a
\* tag; the URL in an href attribute is never matched
RECURSIVE LinkifyFrom(_, _)
LinkifyFrom(html, i) ==
    IF i > Len(html) THEN <<>>
    ELSE (IF IsUrl(html[i]) /\ (i = 1 \/ html[i - 1].k = "text")
          THEN <<Anchor(html[i].tag), html[i], Close("a")>>
          ELSE <<html[i]>>) \o LinkifyFrom(html, i + 1)

linkifyContent(html) ==
    IF \E i \in 1..Len(html) : IsUrl(html[i]) THEN LinkifyFrom(html, 1)
    ELSE html

\* highlightSearchTerm(html, term): every match of the term in text (not
\* inside a tag) is wrapped in a mark element
RECURSIVE HighlightFrom(_, _, _)
HighlightFrom(html, term, i) ==
    IF i > Len(html) THEN <<>>
    ELSE (IF html[i].k = "text" /\ html[i].tag = term
          THEN <<HighlightOpen, html[i], Close("mark")>>
          ELSE <<html[i]>>) \o HighlightFrom(html, term, i + 1)

highlightSearchTerm(html, term) ==
    IF term = NoTerm THEN html ELSE HighlightFrom(html, term, 1)

\* the __html of a view-mode block under the highlight term `term`
ViewHtmlWith(content, term) ==
    LET html == highlightSearchTerm(linkifyContent(content), term)
    IN  IF html = <<>> THEN Placeholder ELSE html
ViewHtml(content) == ViewHtmlWith(content, highlightTerm)

\* React keeps a view surface (and what handlers did to it) as long as the
\* block stays in the view branch and its __html is the same string;
\* otherwise innerHTML is set again from the content
KeepsViewWith(b, pg2, e2, ld2, t2) ==
    /\ b \in ViewRendered(page, editingBlockId, loading)
    /\ b \in ViewRendered(pg2, e2, ld2)
    /\ ViewHtml(BlockOf(page, b).content)
          = ViewHtmlWith(BlockOf(pg2, b).content, t2)
KeepsView(b, pg2, e2, ld2) == KeepsViewWith(b, pg2, e2, ld2, highlightTerm)

\* vd, ve: the view surfaces as the handler left them before the render;
\* t2: the highlight term of the render
RenderViews(vd, ve, pg2, e2, ld2, t2) ==
    /\ viewDom' = [b \in AllBlockIds |->
          IF b \in ViewRendered(pg2, e2, ld2)
          THEN (IF KeepsViewWith(b, pg2, e2, ld2, t2) THEN vd[b]
                ELSE Parse(ViewHtmlWith(BlockOf(pg2, b).content, t2)))
          ELSE <<>>]
    /\ viewEditable' = [b \in AllBlockIds |->
          /\ b \in ViewRendered(page, editingBlockId, loading)
          /\ b \in ViewRendered(pg2, e2, ld2)
          /\ ve[b]]

\* a saved Range whose nodes were replaced no longer lies in the document
RangeAfterRender(r, pg2, e2, ld2, t2) ==
    IF r.block # NULL /\ ~KeepsViewWith(r.block, pg2, e2, ld2, t2)
    THEN [r EXCEPT !.live = FALSE] ELSE r

\* the editing surface lives as long as the same block stays in the edit
\* branch; a newly mounted one is empty
EditorKept(pg2, e2, ld2) ==
    /\ EditorRendered(pg2, e2, ld2)
    /\ EditorRendered(page, editingBlockId, loading)
    /\ e2 = editingBlockId

EditorAfterRender(pg2, e2, ld2) ==
    IF EditorKept(pg2, e2, ld2) THEN editorDom ELSE <<>>

\* the wrapper nodes of a surface (a surface holds a file's wrapper once)
NodesOf(dom) == {dom[i].nid : i \in {j \in 1..Len(dom) : IsWrapper(dom[j])}}

\* a reference to a wrapper node once the surface is `dom`
NodeIn(node, dom) ==
    IF node = NULL \/ node \in NodesOf(dom) THEN node ELSE Detached

\* the references pending continuations hold, once the surface is `dom`
Holding(ms, dom) ==
    {IF m.kind = "upload" THEN [m EXCEPT !.sel = NodeIn(@, dom)] ELSE m :
        m \in ms}

\* the editing surface after a handler, the node `img` it leaves selected
\* and the requests `ms` it leaves pending
Surface(dom2, img, ms) ==
    /\ editorDom' = dom2
    /\ selectedImage' = NodeIn(img, dom2)
    /\ net' = Holding(ms, dom2)
    /\ imageWrap' = imageWrap /\ dragData' = dragData
    /\ UNCHANGED gestureVars

\* state of a PageContent that has just been mounted
PageReset ==
    /\ page' = NoPage /\ loading' = TRUE
    /\ editingBlockId' = NULL /\ editContent' = <<>>
    /\ ringed' = {} /\ timers' = {[t EXCEPT !.live = FALSE] : t \in timers}
    /\ editorDom' = <<>> /\ selectedImage' = NULL /\ imageWrap' = "left"
    /\ dragData' = <<>>
    /\ isResizing' = FALSE /\ listeners' = listeners
    /\ viewDom' = NoViews /\ viewEditable' = NoEdits
    /\ toolbarShown' = FALSE /\ selectedBlockIdRef' = NULL
    /\ pickers' = {} /\ savedText' = FALSE
    /\ savedRange' = NoRange

\* continuations of an unmounted PageContent no longer reach any state
Orphaned(ms) ==
    {IF m.kind \in PageKinds THEN [m EXCEPT !.orphan = TRUE] ELSE m : m \in ms}

CanSend(n) == Cardinality(net) + n <= MaxInFlight
Quiet == Op("", "", FALSE, FALSE, FALSE)

\* <div key={block.id} id={block.id}>: the element of block b stays the
\* same node as long as b stays in the rendered list
ElementKept(b, pg2, ld2) ==
    /\ Shown(page, loading) /\ b \in BlockIds(page)
    /\ Shown(pg2, ld2) /\ b \in BlockIds(pg2)

\* the pending-block effect without its lookup of the element
PendingScrollUnchecked(pg2, ld2, pending) ==
    IF pending # NULL
    THEN {[kind |-> "scroll", block |-> pending, live |-> TRUE]}
    ELSE {}

\* the pending-block effect: if (page && pendingBlockId) and the element
\* with that id exists, the scroll is scheduled 100 ms later (a callback
\* already scheduled for the same element is not counted twice)
PendingScroll(pg2, ld2, pending) ==
    IF pending # NULL /\ Shown(pg2, ld2) /\ pending \in BlockIds(pg2)
    THEN {[kind |-> "scroll", block |-> pending, live |-> TRUE]}
    ELSE {}

\* the callbacks not yet run, once the list of pg2 is rendered: a callback
\* whose element left the document holds a detached element
TimersAfter(pg2, ld2) ==
    {[t EXCEPT !.live = @ /\ ElementKept(t.block, pg2, ld2)] : t \in timers}

\* what a handler leaves of the PageContent state after the next render
\* under the highlight term t2
RenderWith(vd, ve, pg2, e2, ld2, r2, t2) ==
    /\ page' = pg2 /\ editingBlockId' = e2 /\ loading' = ld2
    /\ RenderViews(vd, ve, pg2, e2, ld2, t2)
    /\ savedRange' = RangeAfterRender(r2, pg2, e2, ld2, t2)
    /\ ringed' = {b \in ringed : ElementKept(b, pg2, ld2)}

RenderFrom(vd, ve, pg2, e2, ld2, r2) ==
    /\ RenderWith(vd, ve, pg2, e2, ld2, r2, highlightTerm)
    /\ timers' = TimersAfter(pg2, ld2)
                     \cup PendingScroll(pg2, ld2, pendingBlockId)

Render(pg2, e2, ld2, r2) ==
    RenderFrom(viewDom, viewEditable, pg2, e2, ld2, r2)

\* the request m completes with reply r and its continuation runs
Arrived(m, r) == m \in net /\ ~m.orphan /\ Served(m, r)

\* ===================================================== Home / DocumentList
\* Home.handleSelectPage(pageId) from a tree node, the effects on
\* [selectedPageId] (fetchDocuments) and on [pageId] (fetchPage)
SelectPageWithin(p, limit) ==
    /\ ~crashed /\ p \in documents /\ p # selectedPageId
    /\ Cardinality(net) + 2 <= limit
    /\ selectedPageId' = p
    /\ highlightTerm' = NoTerm
    /\ IF selectedPageId = NULL
       THEN PageReset
       ELSE /\ RenderWith(viewDom, viewEditable, page, editingBlockId,
                          loading, savedRange, NoTerm)
            /\ timers' = TimersAfter(page, loading)
                            \cup PendingScroll(page, loading, pendingBlockId)
            /\ UNCHANGED <<editContent, editVars, toolbarShown, pickers,
                           savedText, selectedBlockIdRef>>
    /\ net' = net \cup
          {Msg("getDoc", p, NULL, <<>>, 0, "", 0, NoPage, NULL),
           Msg("getDocs", NULL, NULL, <<>>, 0, "", 0, NoPage, NULL)}
    /\ lastOp' = Op("selectPage", "", FALSE, FALSE, FALSE)
    /\ UNCHANGED <<srvVars, documents, linkVars, crashed, sanVars>>

SelectPage(p) == SelectPageWithin(p, MaxInFlight)

\* DocumentList.fetchDocuments, after the await
RecvGetDocs(m, r) ==
    /\ ~crashed /\ Arrived(m, r) /\ m.kind = "getDocs"
    /\ net' = net \ {m}
    /\ IF r.st = "ok" THEN documents' = r.rdocs /\ crashed' = FALSE
       ELSE IF r.st = "fail"
            \* setDocuments({error}); documents.map throws in the render
            THEN documents' = documents /\ crashed' = TRUE
            ELSE UNCHANGED <<documents, crashed>>
    /\ lastOp' = Op("recvGetDocs", r.st, FALSE, FALSE, FALSE)
    /\ UNCHANGED <<selectedPageId, linkVars, highlightTerm, blockVars,
                   editVars, viewVars, toolVars, sanVars>>

\* a delete request sent by DocumentList although the user declined
DeletePageUnasked(p, confirmed) ==
    /\ ~crashed /\ p \in documents
    /\ CanSend(1)
    /\ net' = net \cup
          {Msg("deletePage", p, NULL, <<>>, 0, "", 0, NoPage, selectedPageId)}
    /\ lastOp' = Op("deletePage", "", TRUE, confirmed, FALSE)
    /\ UNCHANGED <<srvVars, homeVars, blockVars, editVars, viewVars,
                   toolVars, crashed, sanVars>>

\* DocumentList.handleDeletePage up to the await
DeletePage(p, confirmed) ==
    /\ ~crashed /\ p \in documents
    /\ IF confirmed
       THEN /\ CanSend(1)
            /\ net' = net \cup
                  {Msg("deletePage", p, NULL, <<>>, 0, "", 0, NoPage,
                       selectedPageId)}
       ELSE net' = net
    /\ lastOp' = Op("deletePage", "", TRUE, confirmed, FALSE)
    /\ UNCHANGED <<srvVars, homeVars, blockVars, editVars, viewVars,
                   toolVars, crashed, sanVars>>

\* DocumentList.handleDeletePage after the await
RecvDeletePage(m, r) ==
    /\ ~crashed /\ Arrived(m, r) /\ m.kind = "deletePage"
    /\ IF r.st = "ok"
       THEN /\ IF m.sel = m.doc
               THEN \* onSelectPage(null, null)
                    /\ selectedPageId' = NULL
                    /\ highlightTerm' = NoTerm
                    /\ IF selectedPageId # NULL
                       THEN PageReset
                       ELSE UNCHANGED <<blockVars, editVars, viewVars,
                                        toolVars>>
                    /\ net' = Orphaned(net \ {m}) \cup
                         {Msg("getDocs", NULL, NULL, <<>>, 0, "", 0,
                              NoPage, NULL)}
               ELSE /\ net' = (net \ {m}) \cup
                         {Msg("getDocs", NULL, NULL, <<>>, 0, "", 0,
                              NoPage, NULL)}
                    /\ UNCHANGED <<selectedPageId, highlightTerm, blockVars,
                                   editVars, viewVars, toolVars>>
            /\ lastOp' = Op("recvDeletePage", r.st, FALSE, FALSE, FALSE)
       ELSE /\ net' = net \ {m}
            /\ lastOp' = Op("recvDeletePage", r.st, FALSE, FALSE, TRUE)
            /\ UNCHANGED <<selectedPageId, highlightTerm, blockVars,
                           editVars, viewVars, toolVars>>
    /\ UNCHANGED <<documents, linkVars, crashed, sanVars>>

\* the continuation of a request whose PageContent was unmounted: every
\* setState in it is dropped
RecvOrphan(m, r) ==
    /\ ~crashed /\ m \in net /\ m.orphan /\ Served(m, r)
    /\ m.kind # "createForFiles"
    /\ net' = net \ {m}
    /\ lastOp' = Op("recvOrphan", r.st, FALSE, FALSE, FALSE)
    /\ UNCHANGED <<homeVars, blockVars, editVars, viewVars,
                   toolVars, crashed, sanVars>>

\* ============================================================= PageContent
\* parsing markup into a surface creates the wrapper nodes
Mounted(dom) ==
    [i \in 1..Len(dom) |->
        IF IsWrapper(dom[i]) THEN [dom[i] EXCEPT !.nid = dom[i].file]
        ELSE dom[i]]

Creating ==
    Cardinality({m \in net : m.kind \in {"createBlock", "createForFiles"}})

\* fetchPage, after the await
RecvGetDoc(m, r) ==
    /\ ~crashed /\ Arrived(m, r) /\ m.kind = "getDoc"
    /\ IF r.st = "ok"
       THEN /\ Render(r.rpage, editingBlockId, FALSE, savedRange)
            /\ Surface(EditorAfterRender(r.rpage, editingBlockId, FALSE),
                       selectedImage, net \ {m})
            /\ crashed' = FALSE
       ELSE IF r.st = "fail"
            \* setPage({error}); page.blocks.length throws in the render
            THEN /\ crashed' = TRUE /\ net' = net \ {m}
                 /\ UNCHANGED <<page, loading, editingBlockId, ringed,
                                timers, viewVars, savedRange, editVars>>
            ELSE /\ Render(page, editingBlockId, FALSE, savedRange)
                 /\ Surface(EditorAfterRender(page, editingBlockId, FALSE),
                            selectedImage, net \ {m})
                 /\ crashed' = FALSE
    /\ lastOp' = Op("recvGetDoc", r.st, FALSE, FALSE, FALSE)
    /\ UNCHANGED <<homeVars, editContent,
                   toolbarShown, pickers, savedText, selectedBlockIdRef, sanVars>>

\* a create request that carries the wrong order
AddTextBlockOrderOne ==
    /\ ~crashed /\ selectedPageId # NULL /\ Shown(page, loading)
    /\ CanSend(1) /\ srvNextId + Creating <= MaxBlocks
    /\ net' = net \cup
          {Msg("createBlock", selectedPageId, NULL, <<>>,
               Len(page.blocks) + 1, "", 0, page, NULL)}
    /\ lastOp' = Op("addTextBlock", "", FALSE, FALSE, FALSE)
    /\ UNCHANGED <<srvVars, homeVars, blockVars, editVars, viewVars,
                   toolVars, crashed, sanVars>>

\* handleAddTextBlock up to the await
AddTextBlock ==
    /\ ~crashed /\ selectedPageId # NULL /\ Shown(page, loading)
    /\ CanSend(1) /\ srvNextId + Creating <= MaxBlocks
    /\ net' = net \cup
          {Msg("createBlock", selectedPageId, NULL, <<>>,
               Len(page.blocks), "", 0, page, NULL)}
    /\ lastOp' = Op("addTextBlock", "", FALSE, FALSE, FALSE)
    /\ UNCHANGED <<srvVars, homeVars, blockVars, editVars, viewVars,
                   toolVars, crashed, sanVars>>

\* handleAddTextBlock after the await
RecvCreateBlock(m, r) ==
    /\ ~crashed /\ Arrived(m, r) /\ m.kind = "createBlock"
    /\ IF r.st = "ok"
       THEN LET pg2 == [m.snap EXCEPT !.blocks = Append(@, r.rblock)]
            IN  /\ Render(pg2, r.rblock.id, loading, savedRange)
                /\ Surface(EditorAfterRender(pg2, r.rblock.id, loading),
                           selectedImage, net \ {m})
                /\ editContent' = <<>>
       ELSE /\ net' = net \ {m}
            /\ UNCHANGED <<blockVars, viewVars, savedRange, editVars>>
    /\ lastOp' = Op("recvCreateBlock", r.st, FALSE, FALSE, FALSE)
    /\ UNCHANGED <<homeVars, toolbarShown, pickers, savedText,
                   selectedBlockIdRef, crashed, sanVars>>

\* handleFileSelected up to its first await: k files were chosen
FileSelected(k) ==
    /\ ~crashed /\ selectedPageId # NULL /\ Shown(page, loading)
    /\ IF k = 0
       THEN net' = net
       ELSE /\ CanSend(1) /\ srvNextId + Creating <= MaxBlocks
            /\ net' = net \cup
                  {[Msg("createForFiles", selectedPageId, NULL, <<>>,
                        Len(page.blocks), "", 0, page, NULL)
                       EXCEPT !.files = k]}
    /\ lastOp' = Op("fileSelected", "", FALSE, FALSE, FALSE)
    /\ UNCHANGED <<srvVars, homeVars, blockVars, editVars, viewVars,
                   toolVars, crashed, sanVars>>

\* handleFileSelected between its two awaits: the block was created (or
\* not); the files are uploaded against its id, whether or not the
\* component is still mounted
RecvFilesCreated(m, r) ==
    /\ ~crashed /\ m \in net /\ Served(m, r) /\ m.kind = "createForFiles"
    /\ IF r.st = "ok"
       THEN net' = (net \ {m}) \cup
                {[m EXCEPT !.kind = "uploadFiles", !.block = r.rblock.id,
                           !.content = r.rblock.content,
                           !.order = r.rblock.order, !.seq = FreshSeq]}
       ELSE net' = net \ {m}
    /\ lastOp' = Op("recvFilesCreated", r.st, FALSE, FALSE, FALSE)
    /\ UNCHANGED <<homeVars, blockVars, editVars, viewVars,
                   toolVars, crashed, sanVars>>

\* handleFileSelected after the upload: a response, OK or not, appends the
\* block; a rejected fetch goes to the catch
RecvFilesUploaded(m, r) ==
    /\ ~crashed /\ Arrived(m, r) /\ m.kind = "uploadFiles"
    /\ IF r.st \in {"ok", "fail"}
       THEN LET newBlock == BlkWith(m.block, m.content, m.order,
                                    IF r.st = "ok" THEN r.rfile ELSE 0)
                pg2 == [m.snap EXCEPT !.blocks = Append(@, newBlock)]
            IN  /\ Render(pg2, m.block, loading, savedRange)
                /\ Surface(EditorAfterRender(pg2, m.block, loading),
                           selectedImage, net \ {m})
                /\ editContent' = <<>>
       ELSE /\ net' = net \ {m}
            /\ UNCHANGED <<blockVars, viewVars, savedRange, editVars>>
    /\ lastOp' = Op("recvFilesUploaded", r.st, FALSE, FALSE, FALSE)
    /\ UNCHANGED <<homeVars, toolbarShown, pickers, savedText,
                   selectedBlockIdRef, crashed, sanVars>>

\* handleStartEdit(block), with its zero-delay timer
StartEdit(b) ==
    /\ ~crashed /\ b \in ViewRendered(page, editingBlockId, loading)
    /\ Render(page, b, loading, savedRange)
    /\ editContent' = BlockOf(page, b).content
    /\ Surface(Mounted(Parse(BlockOf(page, b).content)),
               NodeIn(selectedImage, <<>>), Holding(net, <<>>))
    /\ lastOp' = Op("startEdit", "", FALSE, FALSE, FALSE)
    /\ UNCHANGED <<srvVars, homeVars, toolbarShown, pickers, savedText,
                   selectedBlockIdRef, crashed, sanVars>>

\* the text a user types into (or clears from) the editing surface
Typed(dom) ==
    (IF Len(TextOf(dom)) < MaxText THEN {Append(dom, Txt("x"))} ELSE {})
        \cup (IF dom # <<>> THEN {<<>>} ELSE {})

\* onInput={handleEditorInput}
EditorInput(dom2) ==
    /\ ~crashed /\ EditorRendered(page, editingBlockId, loading)
    /\ dom2 \in Typed(editorDom)
    /\ Surface(dom2, selectedImage, net)
    /\ editContent' = InnerHTML(dom2)
    /\ lastOp' = Op("editorInput", "", FALSE, FALSE, FALSE)
    /\ UNCHANGED <<srvVars, homeVars, page, loading, editingBlockId, ringed,
                   timers,
                   viewVars, toolVars, crashed, sanVars>>

\* selectedImage.classList.remove('selected') on the node a handler holds
Deselected(dom, node) ==
    [i \in 1..Len(dom) |->
        IF IsWrapper(dom[i]) /\ dom[i].nid = node /\ node # NULL
        THEN [dom[i] EXCEPT !.cls = @ \ {"selected"}]
        ELSE dom[i]]

\* selectImage(imageWrapper) as seen by a handler that holds `held`
Selected(dom, held, node) ==
    LET d == Deselected(dom, held)
    IN  [i \in 1..Len(d) |->
            IF IsWrapper(d[i]) /\ d[i].nid = node
            THEN [d[i] EXCEPT !.cls = @ \cup {"selected"}]
            ELSE d[i]]

\* imageWrapper.getAttribute('data-wrap') || 'inline'
WrapOf(dom, node) ==
    IF \E i \in 1..Len(dom) : IsWrapper(dom[i]) /\ dom[i].nid = node
    THEN LET i == CHOOSE i \in 1..Len(dom) :
                     IsWrapper(dom[i]) /\ dom[i].nid = node
         IN  IF dom[i].wrap = "" THEN "inline" ELSE dom[i].wrap
    ELSE "inline"

\* selectedImage.setAttribute('data-wrap', wrap) on the node a handler holds
Rewrapped(dom, node, wrap) ==
    [i \in 1..Len(dom) |->
        IF IsWrapper(dom[i]) /\ dom[i].nid = node /\ node # NULL
        THEN [dom[i] EXCEPT !.wrap = wrap]
        ELSE dom[i]]

\* a wrap button that changes the toolbar's state but not the wrapper
ChangeImageWrapStateOnly(w) ==
    /\ ~crashed /\ EditorRendered(page, editingBlockId, loading)
    /\ selectedImage # NULL
    /\ imageWrap' = w /\ dragData' = dragData
    /\ UNCHANGED gestureVars
    /\ lastOp' = Op("changeImageWrap", w, FALSE, FALSE, FALSE)
    /\ UNCHANGED <<srvVars, homeVars, blockVars, editorDom, selectedImage,
                   viewVars, toolVars, net, crashed, sanVars>>

\* changeImageWrap(wrap): nothing without a selected image (the wrap buttons
\* are rendered only while one is selected); the attribute is set on the
\* node the state holds, which may have left the surface
ChangeImageWrap(w) ==
    /\ ~crashed /\ EditorRendered(page, editingBlockId, loading)
    /\ IF selectedImage = NULL
       THEN UNCHANGED <<editVars, editContent>>
       ELSE /\ editorDom' = Rewrapped(editorDom, selectedImage, w)
            /\ imageWrap' = w /\ dragData' = dragData
            /\ UNCHANGED gestureVars
            /\ editContent' = InnerHTML(Rewrapped(editorDom, selectedImage, w))
            /\ UNCHANGED selectedImage
    /\ lastOp' = Op("changeImageWrap", w, FALSE, FALSE, FALSE)
    /\ UNCHANGED <<srvVars, homeVars, page, loading, editingBlockId, ringed,
                   timers,
                   viewVars, toolVars, net, crashed, sanVars>>

Uploading == Cardinality({m \in net : m.kind = "upload"})

\* insertImageIntoEditor(file) up to the await
InsertImage ==
    /\ ~crashed /\ EditorRendered(page, editingBlockId, loading)
    /\ CanSend(1) /\ srvNextFile + Uploading <= MaxUploads
    /\ net' = net \cup
          {Msg("upload", NULL, editingBlockId, <<>>, 0, "", 0, page,
               selectedImage)}
    /\ lastOp' = Op("insertImage", "", FALSE, FALSE, FALSE)
    /\ UNCHANGED <<srvVars, homeVars, blockVars, editVars, viewVars,
                   toolVars, crashed, sanVars>>

\* insertImageIntoEditor after the await: the wrapper goes to the caret
\* (the end of the surface), editContent follows, the wrapper is selected
RecvUpload(m, r) ==
    /\ ~crashed /\ Arrived(m, r) /\ m.kind = "upload"
    /\ IF r.st = "ok" /\ EditorRendered(page, editingBlockId, loading)
       THEN LET dom == editorDom \o NewWrapper(r.rfile, r.rfile)
                sel == Selected(dom, m.sel, r.rfile)
            IN  /\ editorDom' = sel
                /\ selectedImage' = r.rfile
                /\ imageWrap' = WrapOf(sel, r.rfile) /\ dragData' = dragData
                /\ UNCHANGED gestureVars
                /\ net' = Holding(net \ {m}, sel)
                /\ editContent' = InnerHTML(dom)
                /\ lastOp' = Op("recvUpload", r.st, FALSE, FALSE, FALSE)
       ELSE \* the upload failed, or editorRef.current is null by now
            /\ net' = net \ {m}
            /\ UNCHANGED <<editorDom, editContent, selectedImage, imageWrap,
                           dragData, gestureVars>>
            /\ lastOp' = Op("recvUpload", r.st, FALSE, FALSE, TRUE)
    /\ UNCHANGED <<homeVars, page, loading, editingBlockId, ringed,
                   timers, viewVars,
                   toolVars, crashed, sanVars>>

\* onClick={handleEditorClick}: on an inline image, or elsewhere (NULL)
EditorClick(node) ==
    /\ ~crashed /\ EditorRendered(page, editingBlockId, loading)
    /\ node \in NodesOf(editorDom) \cup {NULL}
    /\ node # selectedImage
    /\ editorDom' = IF node = NULL THEN Deselected(editorDom, selectedImage)
                    ELSE Selected(editorDom, selectedImage, node)
    /\ selectedImage' = node
    /\ dragData' = dragData
    /\ UNCHANGED gestureVars
    /\ imageWrap' = IF node = NULL THEN imageWrap
                    ELSE WrapOf(editorDom, node)
    /\ lastOp' = Op("editorClick", "", FALSE, FALSE, FALSE)
    /\ UNCHANGED <<srvVars, homeVars, blockVars, viewVars, toolVars,
                   net, crashed, sanVars>>

\* a save that sends the surface markup as it is
SaveRaw(b) ==
    /\ ~crashed /\ b = editingBlockId
    /\ EditorRendered(page, editingBlockId, loading)
    /\ CanSend(1)
    /\ net' = net \cup
          {Msg("updateBlock", NULL, b, InnerHTML(editorDom),
               0, "save", 1, page, NULL)}
    /\ lastOp' = Op("save", "", FALSE, FALSE, FALSE)
    /\ UNCHANGED <<srvVars, homeVars, blockVars, editVars, viewVars,
                   toolVars, crashed, sanVars>>

\* handleSaveBlockWithEditor(blockId) up to the await
Save(b) ==
    /\ ~crashed /\ b = editingBlockId
    /\ EditorRendered(page, editingBlockId, loading)
    /\ CanSend(1)
    /\ net' = net \cup
          {Msg("updateBlock", NULL, b,
               cleanContentForSave(InnerHTML(editorDom)),
               0, "save", 1, page, NULL)}
    /\ lastOp' = Op("save", "", FALSE, FALSE, FALSE)
    /\ UNCHANGED <<srvVars, homeVars, blockVars, editVars, viewVars,
                   toolVars, crashed, sanVars>>

\* a save continuation that leaves edit mode whatever the response was
RecvSaveAlwaysCloses(m, r) ==
    /\ ~crashed /\ Arrived(m, r) /\ m.kind = "updateBlock" /\ m.via = "save"
    /\ LET pg2 == IF r.st = "ok"
                  THEN ReplaceBlock(m.snap, m.block, r.rblock) ELSE page
       IN  /\ Render(pg2, NULL, loading, savedRange)
           /\ Surface(EditorAfterRender(pg2, NULL, loading), NULL, net \ {m})
           /\ UNCHANGED editContent
    /\ lastOp' = Op("recvSave", r.st, FALSE, FALSE, FALSE)
    /\ UNCHANGED <<homeVars, toolbarShown, pickers, savedText, selectedBlockIdRef,
                   crashed, sanVars>>

\* handleSaveBlockWithEditor after the await
RecvSave(m, r) ==
    /\ ~crashed /\ Arrived(m, r) /\ m.kind = "updateBlock" /\ m.via = "save"
    /\ IF r.st = "ok"
       THEN LET pg2 == ReplaceBlock(m.snap, m.block, r.rblock)
            IN  /\ Render(pg2, NULL, loading, savedRange)
                /\ Surface(EditorAfterRender(pg2, NULL, loading), NULL,
                           net \ {m})
                /\ UNCHANGED editContent
       ELSE /\ net' = net \ {m}
            /\ UNCHANGED <<blockVars, viewVars, savedRange, editVars>>
    /\ lastOp' = Op("recvSave", r.st, FALSE, FALSE, FALSE)
    /\ UNCHANGED <<homeVars, toolbarShown, pickers, savedText, selectedBlockIdRef,
                   crashed, sanVars>>

\* a cancel that only leaves edit mode, whatever the block holds
CancelEditKeepsEmpty(b) ==
    /\ ~crashed /\ b = editingBlockId
    /\ EditorRendered(page, editingBlockId, loading)
    /\ Render(page, NULL, loading, savedRange)
    /\ Surface(EditorAfterRender(page, NULL, loading), NULL, net)
    /\ UNCHANGED editContent
    /\ lastOp' = Op("cancelEdit", "", FALSE, FALSE, FALSE)
    /\ UNCHANGED <<srvVars, homeVars, toolbarShown, pickers, savedText, selectedBlockIdRef,
                   crashed, sanVars>>

\* a cancel that forgets to deselect the inline image
CancelEditKeepsImage(b) ==
    /\ ~crashed /\ b = editingBlockId
    /\ EditorRendered(page, editingBlockId, loading)
    /\ IF BlockOf(page, b).content = <<>>
       THEN /\ CanSend(1)
            /\ net' = net \cup
                  {Msg("deleteBlock", NULL, b, <<>>, 0, "cancel", 0, page,
                       NULL)}
            /\ UNCHANGED <<blockVars, viewVars, savedRange, editVars>>
       ELSE /\ Render(page, NULL, loading, savedRange)
            /\ Surface(EditorAfterRender(page, NULL, loading),
                       selectedImage, net)
            /\ UNCHANGED editContent
    /\ lastOp' = Op("cancelEdit", "", FALSE, FALSE, FALSE)
    /\ UNCHANGED <<srvVars, homeVars, toolbarShown, pickers, savedText, selectedBlockIdRef,
                   crashed, sanVars>>

\* handleCancelEdit(blockId), and handleDeleteBlock(blockId, false) up to
\* its await
CancelEdit(b) ==
    /\ ~crashed /\ b = editingBlockId
    /\ EditorRendered(page, editingBlockId, loading)
    /\ IF BlockOf(page, b).content = <<>>
       THEN /\ CanSend(1)
            /\ net' = net \cup
                  {Msg("deleteBlock", NULL, b, <<>>, 0, "cancel", 0, page,
                       NULL)}
            /\ UNCHANGED <<blockVars, viewVars, savedRange, editVars>>
       ELSE /\ Render(page, NULL, loading, savedRange)
            /\ Surface(EditorAfterRender(page, NULL, loading), NULL, net)
            /\ UNCHANGED editContent
    /\ lastOp' = Op("cancelEdit", "", FALSE, FALSE, FALSE)
    /\ UNCHANGED <<srvVars, homeVars, toolbarShown, pickers, savedText, selectedBlockIdRef,
                   crashed, sanVars>>

\* handleDeleteBlock(blockId, true) up to the await
DeleteBlock(b, confirmed) ==
    /\ ~crashed /\ b \in ViewRendered(page, editingBlockId, loading)
    /\ IF confirmed
       THEN /\ CanSend(1)
            /\ net' = net \cup
                  {Msg("deleteBlock", NULL, b, <<>>, 0, "button", 0, page,
                       NULL)}
       ELSE net' = net
    /\ lastOp' = Op("deleteBlock", "", TRUE, confirmed, FALSE)
    /\ UNCHANGED <<srvVars, homeVars, blockVars, editVars, viewVars,
                   toolVars, crashed, sanVars>>

\* handleDeleteBlock after the await
RecvDeleteBlock(m, r) ==
    /\ ~crashed /\ Arrived(m, r) /\ m.kind = "deleteBlock"
    /\ IF r.st = "ok"
       THEN LET pg2 == FilterBlock(m.snap, m.block)
            IN  /\ Render(pg2, NULL, loading, savedRange)
                /\ Surface(EditorAfterRender(pg2, NULL, loading),
                           selectedImage, net \ {m})
                /\ UNCHANGED editContent
       ELSE /\ net' = net \ {m}
            /\ UNCHANGED <<blockVars, viewVars, savedRange, editVars>>
    /\ lastOp' = Op("recvDeleteBlock", r.st, FALSE, FALSE, FALSE)
    /\ UNCHANGED <<homeVars, toolbarShown, pickers, savedText, selectedBlockIdRef,
                   crashed, sanVars>>

\* ======================================================== floating toolbar
\* position of the first text of a surface (0: the surface holds no text)
FirstText(dom) ==
    IF \E i \in 1..Len(dom) : IsText(dom[i])
    THEN CHOOSE i \in 1..Len(dom) :
            IsText(dom[i]) /\ \A j \in 1..(i - 1) : ~IsText(dom[j])
    ELSE 0

\* the elements of kind `tag` that enclose position t
EnclosedBy(dom, t, tag) ==
    {o \in 1..(t - 1) :
        IsOpen(dom[o]) /\ dom[o].tag = tag /\ MatchClose(dom, o) > t}

Enclosed(dom, t) ==
    \E o \in 1..(t - 1) : IsOpen(dom[o]) /\ MatchClose(dom, o) > t

\* the surface without the element opened at o (its children stay)
Unwrapped(dom, o) ==
    LET c == MatchClose(dom, o)
    IN  SubSeq(dom, 1, o - 1) \o SubSeq(dom, o + 1, c - 1)
            \o SubSeq(dom, c + 1, Len(dom))

\* the surface with the node at t wrapped into the element `open`
WrappedAt(dom, t, open) ==
    SubSeq(dom, 1, t - 1) \o <<open, dom[t], Close(open.tag)>>
        \o SubSeq(dom, t + 1, Len(dom))

MarkerAt(dom) ==
    IF HasMarker(dom) THEN CHOOSE i \in 1..Len(dom) : IsMarker(dom[i]) ELSE 0

\* querySelector('#baux-selection-marker'), children moved out, removed
Unmarked(dom) ==
    IF HasMarker(dom) THEN Unwrapped(dom, MarkerAt(dom)) ELSE dom

CommandTag(cmd) ==
    CASE cmd = "bold"       -> "b"
      [] cmd = "foreColor"  -> "font"
      [] cmd = "createLink" -> "a"

\* document.execCommand(cmd) on a selection that covers the text at t:
\* bold toggles, a colour or a link is put on the text unless it has one
ExecCommand(cmd, dom, t) ==
    LET tag == CommandTag(cmd)
        on  == EnclosedBy(dom, t, tag)
    IN  IF t = 0 THEN dom
        ELSE IF on # {}
             THEN (IF cmd = "bold"
                   THEN Unwrapped(dom, CHOOSE o \in on : \A q \in on : q <= o)
                   ELSE dom)
             ELSE WrappedAt(dom, t, Open(tag))

\* content.replace(/<span\s+id="baux-selection-marker"[^>]*>(.*?)<\/span>/gs,
\* '$1'): the marker's start tag goes with the first </span> that follows
RECURSIVE StripMarkerFrom(_, _)
StripMarkerFrom(html, i) ==
    IF i > Len(html) THEN <<>>
    ELSE IF IsMarker(html[i])
            /\ \E j \in (i + 1)..Len(html) : html[j] = Close("span")
         THEN LET j == CHOOSE j \in (i + 1)..Len(html) :
                          /\ html[j] = Close("span")
                          /\ \A q \in (i + 1)..(j - 1) : html[q] # Close("span")
              IN  SubSeq(html, i + 1, j - 1) \o StripMarkerFrom(html, j + 1)
         ELSE <<html[i]>> \o StripMarkerFrom(html, i + 1)

StripMarker(html) == StripMarkerFrom(html, 1)

\* formatting elements in a surface
Formats(dom) ==
    Cardinality({i \in 1..Len(dom) : IsOpen(dom[i]) /\ IsFormatTag(dom[i])})

Sticky(cmd) == cmd \in {"foreColor", "hiliteColor", "fontSize"}

\* blockRefs.current[selectedBlockIdRef.current], NULL when there is none
ToolBlock ==
    IF selectedBlockIdRef \in ViewRendered(page, editingBlockId, loading)
    THEN selectedBlockIdRef ELSE NULL

\* the view surfaces after hideFloatingToolbar()
HiddenViews ==
    [b \in AllBlockIds |->
        IF b = ToolBlock THEN Unmarked(viewDom[b]) ELSE viewDom[b]]

\* hideFloatingToolbar(), with nothing rendered afterwards
Hide ==
    /\ toolbarShown' = FALSE
    /\ pickers' = {} /\ savedText' = FALSE
    /\ viewDom' = HiddenViews
    /\ savedRange' = NoRange
    /\ selectedBlockIdRef' = NULL

\* the text the toolbar acts on: the marker's, else the saved range's
Target(dom) ==
    IF HasMarker(dom) \/ (savedRange.live /\ savedRange.kind # "none")
    THEN FirstText(dom) ELSE 0

\* mouseup on a view surface: handleTextSelection(blockId), with its timer.
\* sel: "none" (collapsed), "text" (inside one text node), "cross" (from
\* inside an element to outside of it: surroundContents throws)
TextSelection(b, sel) ==
    /\ ~crashed /\ b \in ViewRendered(page, editingBlockId, loading)
    /\ IF sel = "none"
       THEN /\ toolbarShown \/ selectedBlockIdRef # NULL
            /\ Hide /\ UNCHANGED viewEditable
       ELSE LET dom == Unmarked(viewDom[b])
                t   == FirstText(dom)
            IN  /\ t # 0
                /\ sel = "cross" => Enclosed(dom, t)
                /\ viewDom' = [viewDom EXCEPT ![b] =
                      IF sel = "text" THEN WrappedAt(dom, t, MarkerOpen)
                      ELSE dom]
                /\ viewEditable' = [viewEditable EXCEPT ![b] = (sel = "cross")]
                /\ savedRange' = [block |-> b, kind |-> sel, live |-> TRUE]
                /\ selectedBlockIdRef' = b
                /\ toolbarShown' = TRUE
                /\ savedText' = TRUE /\ pickers' = pickers
    /\ lastOp' = Op("textSelection", sel, FALSE, FALSE, FALSE)
    /\ UNCHANGED <<srvVars, homeVars, blockVars, editVars, net, crashed,
                   sanVars>>

\* mousedown outside every block and outside the toolbar
ClickOutside ==
    /\ ~crashed /\ selectedPageId # NULL
    /\ toolbarShown \/ selectedBlockIdRef # NULL
    /\ Hide
    /\ lastOp' = Op("clickOutside", "", FALSE, FALSE, FALSE)
    /\ UNCHANGED <<srvVars, homeVars, blockVars, editVars, viewEditable,
                   net, crashed, sanVars>>

\* mousedown inside a tracked block surface or inside the toolbar: the
\* document's mousedown handler does nothing
PressInside(where) ==
    /\ ~crashed /\ selectedPageId # NULL
    /\ where = "toolbar" => toolbarShown
    /\ where = "block" => ViewRendered(page, editingBlockId, loading) # {}
    /\ lastOp' = Op("pressInside", where, FALSE, FALSE, FALSE)
    /\ UNCHANGED <<srvVars, homeVars, blockVars, editVars, viewVars,
                   toolVars, net, crashed, sanVars>>

\* applyFloatingFormat returns before it formats anything: no block id is
\* recorded or its surface is gone (ToolBlock), or the surface holds no
\* marker and no range is saved
NothingToFormat ==
    \/ ToolBlock = NULL
    \/ ~HasMarker(viewDom[ToolBlock]) /\ savedRange = NoRange

\* a format handler that dismisses the toolbar when it finds nothing to format
FormatOrDismiss(cmd) ==
    /\ ~crashed /\ toolbarShown /\ NothingToFormat
    /\ Hide
    /\ lastOp' = Op("format", cmd, FALSE, FALSE, FALSE)
    /\ UNCHANGED <<srvVars, homeVars, blockVars, editVars, viewEditable,
                   net, crashed, sanVars>>

\* applyFloatingFormat(cmd, value) up to the await
Format(cmd) ==
    /\ ~crashed /\ toolbarShown
    /\ IF NothingToFormat
       THEN /\ viewEditable' =
                 [b \in AllBlockIds |-> b # ToolBlock /\ viewEditable[b]]
            /\ UNCHANGED <<viewDom, net>>
       ELSE LET b    == ToolBlock
                dom2 == ExecCommand(cmd, viewDom[b], Target(viewDom[b]))
            IN  /\ CanSend(1)
                /\ Formats(dom2) <= MaxFormat
                /\ viewDom' = [viewDom EXCEPT ![b] = dom2]
                /\ viewEditable' = [viewEditable EXCEPT ![b] = FALSE]
                /\ net' = net \cup
                      {Msg("updateBlock", NULL, b,
                           StripMarker(InnerHTML(dom2)),
                           0, cmd, 0, page, NULL)}
    /\ lastOp' = Op("format", cmd, FALSE, FALSE, FALSE)
    /\ UNCHANGED <<srvVars, homeVars, blockVars, editVars, toolVars,
                   crashed, sanVars>>

\* the colour button / the font-size button of the toolbar
TogglePicker(which) ==
    /\ ~crashed /\ toolbarShown
    /\ pickers' = IF which \in pickers THEN pickers \ {which}
                  ELSE pickers \cup {which}
    /\ lastOp' = Op("togglePicker", which, FALSE, FALSE, FALSE)
    /\ UNCHANGED <<srvVars, homeVars, blockVars, editVars, viewVars,
                   toolbarShown, savedText, selectedBlockIdRef, savedRange,
                   net, crashed, sanVars>>

\* the Escape key: the keydown handler of the page deselects the inline
\* image of the block being edited, if there is one
Escape ==
    /\ ~crashed /\ selectedPageId # NULL
    /\ IF selectedImage # NULL /\ editingBlockId # NULL
       THEN /\ editorDom' = Deselected(editorDom, selectedImage)
            /\ selectedImage' = NULL
            /\ imageWrap' = imageWrap /\ dragData' = dragData
            /\ UNCHANGED gestureVars
       ELSE UNCHANGED editVars
    /\ lastOp' = Op("escape", "", FALSE, FALSE, FALSE)
    /\ UNCHANGED <<srvVars, homeVars, blockVars, viewVars, toolVars,
                   net, crashed, sanVars>>

\* a format continuation that hides the toolbar whatever the command was
RecvFormatAlwaysHides(m, r) ==
    /\ ~crashed /\ Arrived(m, r) /\ m.kind = "updateBlock"
    /\ m.via \in {"bold", "foreColor"}
    /\ LET pg2 == IF r.st = "ok"
                  THEN ReplaceBlock(m.snap, m.block, r.rblock) ELSE page
       IN  /\ RenderFrom(HiddenViews, viewEditable, pg2,
                         editingBlockId, loading, NoRange)
           /\ toolbarShown' = FALSE /\ selectedBlockIdRef' = NULL
           /\ pickers' = {} /\ savedText' = FALSE
           /\ Surface(EditorAfterRender(pg2, editingBlockId, loading),
                      selectedImage, net \ {m})
    /\ lastOp' = Op("recvFormat", r.st, FALSE, FALSE, FALSE)
    /\ UNCHANGED <<homeVars, editContent, crashed, sanVars>>

\* a format continuation that puts the stored content back on the surface
\* when the request failed
RecvFormatRollsBack(m, r) ==
    /\ ~crashed /\ Arrived(m, r) /\ m.kind = "updateBlock"
    /\ m.via \in {"bold", "foreColor"}
    /\ LET pg2 == IF r.st = "ok"
                  THEN ReplaceBlock(m.snap, m.block, r.rblock) ELSE page
           vd  == [b \in AllBlockIds |->
                     IF /\ r.st # "ok" /\ b = m.block
                        /\ b \in ViewRendered(page, editingBlockId, loading)
                     THEN Parse(ViewHtml(BlockOf(page, b).content))
                     ELSE viewDom[b]]
       IN  /\ IF Sticky(m.via)
              THEN /\ RenderFrom(vd, viewEditable, pg2, editingBlockId,
                                 loading, savedRange)
                   /\ UNCHANGED <<toolbarShown, pickers, savedText,
                                  selectedBlockIdRef>>
              ELSE /\ RenderFrom([b \in AllBlockIds |-> Unmarked(vd[b])],
                                 viewEditable, pg2, editingBlockId, loading,
                                 NoRange)
                   /\ toolbarShown' = FALSE /\ selectedBlockIdRef' = NULL
                   /\ pickers' = {} /\ savedText' = FALSE
           /\ Surface(EditorAfterRender(pg2, editingBlockId, loading),
                      selectedImage, net \ {m})
    /\ lastOp' = Op("recvFormat", r.st, FALSE, FALSE, FALSE)
    /\ UNCHANGED <<homeVars, editContent, crashed, sanVars>>

\* applyFloatingFormat after the await: setPage on success, then the
\* toolbar is hidden unless the command is a sticky one; the render follows
RecvFormat(m, r) ==
    /\ ~crashed /\ Arrived(m, r) /\ m.kind = "updateBlock"
    /\ m.via \in {"bold", "foreColor"}
    /\ LET pg2 == IF r.st = "ok"
                  THEN ReplaceBlock(m.snap, m.block, r.rblock) ELSE page
       IN  /\ IF Sticky(m.via)
              THEN /\ Render(pg2, editingBlockId, loading, savedRange)
                   /\ UNCHANGED <<toolbarShown, pickers, savedText,
                                  selectedBlockIdRef>>
              ELSE /\ RenderFrom(HiddenViews, viewEditable, pg2,
                                 editingBlockId, loading, NoRange)
                   /\ toolbarShown' = FALSE /\ selectedBlockIdRef' = NULL
                   /\ pickers' = {} /\ savedText' = FALSE
           /\ Surface(EditorAfterRender(pg2, editingBlockId, loading),
                      selectedImage, net \ {m})
    /\ lastOp' = Op("recvFormat", r.st, FALSE, FALSE, FALSE)
    /\ UNCHANGED <<homeVars, editContent, crashed, sanVars>>

\* the link button: prompt('Enter URL:'), createLink on the saved range
\* (execCommand acts on editable content only), the surface markup is sent
\* as it is, hideFloatingToolbar()
InsertLink(url) ==
    /\ ~crashed /\ toolbarShown
    /\ LET b     == ToolBlock
           sends == url /\ savedRange # NoRange /\ b # NULL
           dom2  == IF sends /\ viewEditable[b] /\ savedRange.live
                    THEN ExecCommand("createLink", viewDom[b],
                                     FirstText(viewDom[b]))
                    ELSE IF b # NULL THEN viewDom[b] ELSE <<>>
       IN  /\ Formats(dom2) <= MaxFormat
           /\ IF sends
              THEN /\ CanSend(1)
                   /\ net' = net \cup
                         {Msg("updateBlock", NULL, b, InnerHTML(dom2), 0,
                              "link", 0, page, NULL)}
              ELSE net' = net
           /\ viewDom' = [x \in AllBlockIds |->
                 IF x = b THEN Unmarked(dom2) ELSE viewDom[x]]
    /\ toolbarShown' = FALSE /\ savedRange' = NoRange
    /\ pickers' = {} /\ savedText' = FALSE
    /\ selectedBlockIdRef' = NULL
    /\ lastOp' = Op("insertLink", "", TRUE, url, FALSE)
    /\ UNCHANGED <<srvVars, homeVars, blockVars, editVars, viewEditable,
                   crashed, sanVars>>

\* the response to the link request: nothing waits for it
RecvLink(m, r) ==
    /\ ~crashed /\ Arrived(m, r) /\ m.kind = "updateBlock" /\ m.via = "link"
    /\ net' = net \ {m}
    /\ lastOp' = Op("recvLink", r.st, FALSE, FALSE, FALSE)
    /\ UNCHANGED <<homeVars, blockVars, editVars, viewVars, toolVars,
                   crashed, sanVars>>

\* "Remove Color" up to the await: the surface becomes its text content
RemoveColor ==
    /\ ~crashed /\ toolbarShown /\ ToolBlock # NULL /\ CanSend(1)
    /\ LET b    == ToolBlock
           text == TextOf(InnerHTML(viewDom[b]))
       IN  /\ viewDom' = [viewDom EXCEPT ![b] = Parse(text)]
           /\ savedRange' = IF text = InnerHTML(viewDom[b]) THEN savedRange
                            ELSE [savedRange EXCEPT !.live = FALSE]
           /\ net' = net \cup
                 {Msg("updateBlock", NULL, b, text, 0, "removeColor", 0,
                      page, NULL)}
    /\ lastOp' = Op("removeColor", "", FALSE, FALSE, FALSE)
    /\ UNCHANGED <<srvVars, homeVars, blockVars, editVars, viewEditable,
                   toolbarShown, pickers, savedText, selectedBlockIdRef, crashed, sanVars>>

\* "Remove Color" after the await: setPage on success; the 10 ms timer
\* then selects the contents of the surface it closed over
RecvRemoveColor(m, r) ==
    /\ ~crashed /\ Arrived(m, r) /\ m.kind = "updateBlock"
    /\ m.via = "removeColor"
    /\ LET pg2 == IF r.st = "ok"
                  THEN ReplaceBlock(m.snap, m.block, r.rblock) ELSE page
       IN  /\ page' = pg2
           /\ RenderViews(viewDom, viewEditable, pg2, editingBlockId, loading,
                          highlightTerm)
           /\ ringed' = {b \in ringed : ElementKept(b, pg2, loading)}
           /\ timers' = TimersAfter(pg2, loading)
                           \cup PendingScroll(pg2, loading, pendingBlockId)
           /\ savedRange' =
                 [block |-> m.block, kind |-> "all",
                  live |-> /\ m.block \in ViewRendered(pg2, editingBlockId,
                                                       loading)
                           /\ m.block \in ViewRendered(page, editingBlockId,
                                                       loading)]
           /\ Surface(EditorAfterRender(pg2, editingBlockId, loading),
                      selectedImage, net \ {m})
    /\ lastOp' = Op("recvRemoveColor", r.st, FALSE, FALSE, FALSE)
    /\ UNCHANGED <<homeVars, loading, editingBlockId, editContent,
                   toolbarShown, pickers, savedText, selectedBlockIdRef, crashed, sanVars>>

\* ============================================================ specification
clientVars == <<documents, selectedPageId, pendingBlockId, highlightTerm,
                scrolledTo, ringed, timers, page, loading, editingBlockId,
                editContent, editorDom, selectedImage, imageWrap, dragData,
                isResizing, listeners, viewDom,
                viewEditable, toolbarShown, pickers, savedText,
                selectedBlockIdRef, savedRange, crashed>>

SanIdle == sanIn = <<>> /\ sanOut = <<>> /\ sanOut2 = <<>> /\ sanPc = "idle"

\* Home, DocumentList and their children as they are once mounted
ClientInit ==
    /\ documents = {} /\ selectedPageId = NULL
    /\ pendingBlockId = NULL /\ highlightTerm = NoTerm /\ scrolledTo = NULL
    /\ ringed = {} /\ timers = {}
    /\ page = NoPage /\ loading = TRUE
    /\ editingBlockId = NULL /\ editContent = <<>>
    /\ editorDom = <<>> /\ selectedImage = NULL /\ imageWrap = "left"
    /\ dragData = <<>> /\ isResizing = FALSE /\ listeners = {}
    /\ viewDom = NoViews /\ viewEditable = NoEdits
    /\ toolbarShown = FALSE /\ selectedBlockIdRef = NULL
    /\ pickers = {} /\ savedText = FALSE
    /\ savedRange = NoRange
    /\ net = {Request("getDocs", NULL, NULL, <<>>, 0, "", 0, NoPage, NULL, 1)}
    /\ lastOp = Quiet /\ crashed = FALSE

\* one empty document on the server
AppInit ==
    /\ srvDocs = {1} /\ srvBlocks = {} /\ srvNextId = 1 /\ srvNextFile = 1
    /\ ClientInit

Init == AppInit /\ SanIdle

AllReplies == UNION {Replies(m) : m \in net}

\* opening the page: the tree is fetched, a page is selected and fetched
Opening ==
    \/ \E p \in documents : SelectPage(p)
    \/ \E m \in net, r \in AllReplies : RecvGetDocs(m, r)
    \/ \E m \in net, r \in AllReplies : RecvGetDoc(m, r)

\* adding a block and editing its text
Editing ==
    \/ AddTextBlock
    \/ \E m \in net, r \in AllReplies : RecvCreateBlock(m, r)
    \/ \E b \in AllBlockIds : StartEdit(b)
    \/ \E d \in Typed(editorDom) : EditorInput(d)
    \/ \E b \in AllBlockIds : Save(b)
    \/ \E m \in net, r \in AllReplies : RecvSave(m, r)
    \/ \E b \in AllBlockIds : CancelEdit(b)
    \/ \E m \in net, r \in AllReplies : RecvDeleteBlock(m, r)

\* deleting blocks and pages
Deleting ==
    \/ \E p \in documents, c \in BOOLEAN : DeletePage(p, c)
    \/ \E m \in net, r \in AllReplies : RecvDeletePage(m, r)
    \/ \E m \in net, r \in AllReplies : RecvOrphan(m, r)
    \/ \E b \in AllBlockIds, c \in BOOLEAN : DeleteBlock(b, c)

\* block management: pages, blocks, their text
Next == Opening \/ Editing \/ Deleting

Spec == Init /\ [][Next]_vars

\* (the user waits for the answer to one request before causing the next)
OneAtATime == Cardinality({m \in net : m.kind \in PageKinds}) <= 1

\* the rich editor: text and inline images of the block being edited
NextEditor ==
    \/ \E p \in documents : SelectPage(p)
    \/ \E m \in net, r \in AllReplies : RecvGetDocs(m, r)
    \/ \E m \in net, r \in AllReplies : RecvGetDoc(m, r)
    \/ AddTextBlock /\ OneAtATime'
    \/ \E m \in net, r \in AllReplies : RecvCreateBlock(m, r)
    \/ \E b \in AllBlockIds : StartEdit(b)
    \/ \E d \in Typed(editorDom) : EditorInput(d)
    \/ InsertImage /\ OneAtATime'
    \/ \E m \in net, r \in AllReplies : RecvUpload(m, r)
    \/ \E n \in 0..MaxUploads : EditorClick(n)
    \/ \E b \in AllBlockIds : Save(b) /\ OneAtATime'
    \/ \E m \in net, r \in AllReplies : RecvSave(m, r)
    \/ \E b \in AllBlockIds : CancelEdit(b) /\ OneAtATime'
    \/ \E m \in net, r \in AllReplies : RecvDeleteBlock(m, r)

SpecEditor == Init /\ [][NextEditor]_vars

\* formatting the text of a one-block page in view mode with the floating
\* toolbar
NextView ==
    \/ \E p \in documents : SelectPage(p)
    \/ \E m \in net, r \in AllReplies : RecvGetDocs(m, r)
    \/ \E m \in net, r \in AllReplies : RecvGetDoc(m, r)
    \/ AddTextBlock /\ page.blocks = <<>> /\ OneAtATime'
    \/ \E m \in net, r \in AllReplies : RecvCreateBlock(m, r)
    \/ \E b \in AllBlockIds : StartEdit(b)
    \/ \E d \in Typed(editorDom) : EditorInput(d)
    \/ \E b \in AllBlockIds : Save(b) /\ OneAtATime'
    \/ \E m \in net, r \in AllReplies : RecvSave(m, r)
    \/ \E b \in AllBlockIds, sel \in {"none", "text", "cross"} :
          TextSelection(b, sel)
    \/ ClickOutside
    \/ Format("bold") /\ OneAtATime'
    \/ \E m \in net, r \in AllReplies : RecvFormat(m, r)
    \/ \E url \in BOOLEAN : InsertLink(url) /\ OneAtATime'
    \/ \E m \in net, r \in AllReplies : RecvLink(m, r)
    \/ RemoveColor /\ OneAtATime'
    \/ \E m \in net, r \in AllReplies : RecvRemoveColor(m, r)

SpecView == Init /\ [][NextView]_vars

\* the floating toolbar's format commands on a one-block page
NextFormat ==
    \/ \E p \in documents : SelectPage(p)
    \/ \E m \in net, r \in AllReplies : RecvGetDocs(m, r)
    \/ \E m \in net, r \in AllReplies : RecvGetDoc(m, r)
    \/ AddTextBlock /\ page.blocks = <<>> /\ OneAtATime'
    \/ \E m \in net, r \in AllReplies : RecvCreateBlock(m, r)
    \/ \E b \in AllBlockIds : StartEdit(b)
    \/ \E d \in Typed(editorDom) : EditorInput(d)
    \/ \E b \in AllBlockIds : Save(b) /\ OneAtATime'
    \/ \E m \in net, r \in AllReplies : RecvSave(m, r)
    \/ \E b \in AllBlockIds, sel \in {"none", "text", "cross"} :
          TextSelection(b, sel)
    \/ ClickOutside
    \/ \E where \in {"block", "toolbar"} : PressInside(where)
    \/ Escape
    \/ \E cmd \in {"bold", "foreColor"} : Format(cmd) /\ OneAtATime'
    \/ \E m \in net, r \in AllReplies : RecvFormat(m, r)

SpecFormat == Init /\ [][NextFormat]_vars

\* the wrap mode of the inline image of a one-block page
NextWrap ==
    \/ \E p \in documents : SelectPage(p)
    \/ \E m \in net, r \in AllReplies : RecvGetDocs(m, r)
    \/ \E m \in net, r \in AllReplies : RecvGetDoc(m, r)
    \/ AddTextBlock /\ page.blocks = <<>> /\ OneAtATime'
    \/ \E m \in net, r \in AllReplies : RecvCreateBlock(m, r)
    \/ \E b \in AllBlockIds : StartEdit(b)
    \/ InsertImage /\ OneAtATime'
    \/ \E m \in net, r \in AllReplies : RecvUpload(m, r)
    \/ \E n \in 0..MaxUploads : EditorClick(n)
    \/ \E w \in WrapModes : ChangeImageWrap(w)
    \/ \E b \in AllBlockIds : Save(b) /\ OneAtATime'
    \/ \E m \in net, r \in AllReplies : RecvSave(m, r)

SpecWrap == Init /\ [][NextWrap]_vars

\* text selections on the view surfaces of a page with several blocks
NextSelect ==
    \/ \E p \in documents : SelectPage(p)
    \/ \E m \in net, r \in AllReplies : RecvGetDocs(m, r)
    \/ \E m \in net, r \in AllReplies : RecvGetDoc(m, r)
    \/ AddTextBlock /\ OneAtATime'
    \/ \E m \in net, r \in AllReplies : RecvCreateBlock(m, r)
    \/ \E d \in Typed(editorDom) : EditorInput(d)
    \/ \E b \in AllBlockIds : Save(b) /\ OneAtATime'
    \/ \E m \in net, r \in AllReplies : RecvSave(m, r)
    \/ \E b \in AllBlockIds, sel \in {"none", "text", "cross"} :
          TextSelection(b, sel)
    \/ \E which \in {"color", "size"} : TogglePicker(which)
    \/ ClickOutside

SpecSelect == Init /\ [][NextSelect]_vars

\* attachment blocks: files are chosen for a new block of the open page
NextAttach ==
    \/ \E p \in documents : SelectPage(p)
    \/ \E m \in net, r \in AllReplies : RecvGetDocs(m, r)
    \/ \E m \in net, r \in AllReplies : RecvGetDoc(m, r)
    \/ AddTextBlock
    \/ \E m \in net, r \in AllReplies : RecvCreateBlock(m, r)
    \/ \E k \in 0..MaxFiles : FileSelected(k)
    \/ \E m \in net, r \in AllReplies : RecvFilesCreated(m, r)
    \/ \E m \in net, r \in AllReplies : RecvFilesUploaded(m, r)
    \/ \E b \in AllBlockIds : StartEdit(b)
    \/ \E b \in AllBlockIds : CancelEdit(b)
    \/ \E m \in net, r \in AllReplies : RecvDeleteBlock(m, r)

SpecAttach == Init /\ [][NextAttach]_vars

\* ---------------------------------------------------- the sanitizer alone
\* what handleSaveBlockWithEditor hands to the sanitizer is the serialisation
\* of an editing surface: text, formatted text, links, inline-image wrappers
\* in any selection / drag state with or without their handles
SanWrapper(file, wrap, st, handles) ==
    <<WrapperOpen(file, wrap, st, 0)>>
        \o (IF handles THEN HandleToks(1) ELSE <<>>)
        \o <<Img(file), Close("span")>>

SanItems ==
    {<<Txt("x")>>,
     <<Open("b"), Txt("x"), Close("b")>>,
     <<Open("a"), Txt("x"), Close("a")>>,
     <<Open("b")>> \o SanWrapper(2, "left", {"selected"}, TRUE)
         \o <<Close("b")>>}
    \cup {SanWrapper(1, w, st, h) :
            w \in {"left", "center"}, st \in SUBSET {"selected", "dragging"},
            h \in BOOLEAN}

RECURSIVE SanInputs(_)
SanInputs(n) ==
    IF n = 0 THEN {<<>>}
    ELSE SanInputs(n - 1) \cup
         {a \o b : a \in SanItems, b \in SanInputs(n - 1)}

SanInit ==
    /\ AppInit
    /\ sanIn \in SanInputs(MaxSanItems)
    /\ sanOut = <<>> /\ sanOut2 = <<>> /\ sanPc = "input"

\* content = cleanContentForSave(rawContent)
SanApply ==
    /\ sanPc = "input"
    /\ sanOut' = cleanContentForSave(sanIn)
    /\ sanPc' = "once"
    /\ UNCHANGED <<srvVars, clientVars, net, lastOp, sanIn, sanOut2>>

\* the sanitizer applied to its own output
SanReapply ==
    /\ sanPc = "once"
    /\ sanOut2' = cleanContentForSave(sanOut)
    /\ sanPc' = "twice"
    /\ UNCHANGED <<srvVars, clientVars, net, lastOp, sanIn, sanOut>>

SanNext == SanApply \/ SanReapply

SpecSanitize == SanInit /\ [][SanNext]_vars

\* ============================================================== properties
\* C3: the sanitizer is idempotent: for every input x, sanitizing the
\* sanitized x gives the sanitized x again.
C3_Idempotent ==
    sanPc = "twice" => sanOut2 = sanOut

\* an input with resize handles and state classes has been sanitized twice
C3_Witness ==
    /\ sanPc = "twice"
    /\ HasHandle(sanIn) /\ HasStateClass(sanIn)
    /\ sanOut # sanIn /\ sanOut2 = sanOut

\* C4: the sanitized markup holds no resize handle and no selected /
\* dragging class, while every inline-image wrapper of the input is still
\* there with its data-wrap and data-file-id, and the text, the formatting
\* tags, the links and the images of the input are unchanged.
C4_CleanAndPreserving ==
    sanPc # "input" =>
        /\ ~HasHandle(sanOut) /\ ~HasStateClass(sanOut)
        /\ WrappersOf(sanOut) = WrappersOf(sanIn)
        /\ TextOf(sanOut) = TextOf(sanIn)
        /\ FormatOf(sanOut) = FormatOf(sanIn)
        /\ ImagesOf(sanOut) = ImagesOf(sanIn)

\* a dragged, selected wrapper with handles inside formatted text has been
\* sanitized
C4_Witness ==
    /\ sanPc = "once"
    /\ HasHandle(sanIn) /\ HasStateClass(sanIn)
    /\ \E i \in 1..Len(sanIn) : IsWrapper(sanIn[i]) /\ "dragging" \in sanIn[i].cls
    /\ FormatOf(sanIn) # <<>> /\ TextOf(sanIn) # <<>>
    /\ WrappersOf(sanOut) # <<>>

\* the requests a step sends / the requests whose continuation it runs
SentBy(kinds) ==
    {m \in net' : m.kind \in kinds /\ \A n \in net : n.seq # m.seq}
AnsweredBy(kinds) ==
    {m \in net : m.kind \in kinds /\ \A n \in net' : n.seq # m.seq}
Mutating == {"createBlock", "updateBlock", "deleteBlock", "deletePage"}
AnyKind == PageKinds \cup {"getDocs", "deletePage"}

\* C1: the content carried by every block-update request, and so every
\* persisted block content, contains no selection-marker element, no
\* resize-handle element and no selected / dragging class on a wrapper.
C1_NoTransientPersisted ==
    /\ \A m \in net : m.kind = "updateBlock" => ~HasTransient(m.content)
    /\ \A b \in srvBlocks : ~HasTransient(b.content)

\* C2: on every path that sends block content to persistence (save, format,
\* link insertion, remove color) the sanitizer has been applied exactly once
\* to the content immediately before the block-update request is issued.
C2_SanitizedOnce ==
    \A m \in net : m.kind = "updateBlock" => m.nsan = 1

\* C5: adding a text block to a document whose list has N blocks sends a
\* create request with order N and empty content; on success the returned
\* block is appended as the last element of that list, becomes the block in
\* editing state and the edit content is empty; on failure the block list
\* and the editing state do not change.
C5_AddTextBlock ==
    [][/\ lastOp'.op = "addTextBlock" =>
            /\ \E m \in SentBy({"createBlock"}) :
                  /\ SentBy(AnyKind) = {m}
                  /\ m.doc = selectedPageId
                  /\ m.order = Len(page.blocks) /\ m.content = <<>>
            /\ UNCHANGED <<page, editingBlockId, editContent>>
       /\ lastOp'.op = "recvCreateBlock" =>
            \E m \in AnsweredBy({"createBlock"}) :
               IF lastOp'.st = "ok"
               THEN /\ Len(page'.blocks) = m.order + 1
                    /\ SubSeq(page'.blocks, 1, m.order) = m.snap.blocks
                    /\ LET new == page'.blocks[m.order + 1]
                       IN  /\ new.content = <<>> /\ new.order = m.order
                           /\ new.id \notin BlockIds(m.snap)
                           /\ SrvBlk(new.id, m.doc, <<>>, m.order) \in srvBlocks'
                           /\ editingBlockId' = new.id
                    /\ editContent' = <<>>
               ELSE UNCHANGED <<page, editingBlockId, editContent, srvBlocks>>
      ]_vars

\* a second block has been created: it is last, in editing state, empty
C5_Witness ==
    /\ lastOp.op = "recvCreateBlock" /\ lastOp.st = "ok"
    /\ Len(page.blocks) = 2
    /\ editingBlockId = page.blocks[2].id
    /\ page.blocks[2].order = 1
    /\ editContent = <<>>

\* C6 as stated: once the delete request that cancelling an edit of an empty
\* block issued has been answered, the block is removed from the block
\* sequence and no block is left in editing state.
C6_CancelEmptyAlwaysDeletes ==
    [][lastOp'.op = "recvDeleteBlock" =>
          \A m \in AnsweredBy({"deleteBlock"}) :
              m.via = "cancel" =>
                  /\ m.block \notin BlockIds(page')
                  /\ editingBlockId' = NULL
      ]_vars

\* C6 amended: cancelling an edit of a block whose content in the local
\* collection is empty issues a delete request for it without a prompt and
\* changes nothing else; when the server reports success the block is
\* removed from the sequence and no block is in editing state; when the
\* request fails the sequence and the editing state stay as they are.
C6_CancelEmpty ==
    [][/\ (/\ lastOp'.op = "cancelEdit"
           /\ BlockOf(page, editingBlockId).content = <<>>) =>
            /\ \E m \in SentBy({"deleteBlock"}) :
                  /\ SentBy(AnyKind) = {m}
                  /\ m.block = editingBlockId /\ m.via = "cancel"
            /\ ~lastOp'.prompt
            /\ UNCHANGED <<page, editingBlockId>>
       /\ lastOp'.op = "recvDeleteBlock" =>
            \A m \in AnsweredBy({"deleteBlock"}) :
                m.via = "cancel" =>
                    IF lastOp'.st = "ok"
                    THEN /\ m.block \notin BlockIds(page')
                         /\ editingBlockId' = NULL
                         /\ \A b \in srvBlocks' : b.id # m.block
                    ELSE UNCHANGED <<page, editingBlockId, srvBlocks>>
      ]_vars

\* the edit of an empty block has just been cancelled: its delete request
\* is in flight, no prompt was shown
C6_Witness ==
    /\ lastOp.op = "cancelEdit" /\ ~lastOp.prompt
    /\ \E m \in net :
          /\ m.kind = "deleteBlock" /\ m.via = "cancel"
          /\ m.block = editingBlockId
          /\ BlockOf(page, m.block).content = <<>>
          /\ editorDom # <<>>

\* C7: cancelling an edit of a block whose content is not empty sends no
\* update and no delete request, leaves the stored content of the block what
\* it was whatever the surface holds, returns the block to viewing state and
\* leaves no inline image selected.
C7_CancelNonEmpty ==
    [][(/\ lastOp'.op = "cancelEdit"
        /\ BlockOf(page, editingBlockId).content # <<>>) =>
            /\ SentBy(Mutating) = {}
            /\ page' = page /\ srvBlocks' = srvBlocks
            /\ editingBlockId' = NULL
            /\ editingBlockId \in ViewRendered(page', editingBlockId', loading')
            /\ InnerHTML(viewDom'[editingBlockId])
                  = BlockOf(page, editingBlockId).content
            /\ selectedImage' = NULL
      ]_vars

\* an edit in which an image was inserted into a block with stored text has
\* been cancelled
C7_Witness ==
    /\ lastOp.op = "cancelEdit"
    /\ editingBlockId = NULL /\ selectedImage = NULL
    /\ HasHandle(editContent)
    /\ \E i \in 1..Len(page.blocks) :
          /\ page.blocks[i].content = <<Txt("x")>>
          /\ viewDom[page.blocks[i].id] = <<Txt("x")>>

\* C8: save sends the sanitized content of the editing surface; when the
\* request succeeds the entry of the block in the local collection is the
\* block the server returned, the block is in viewing state and no inline
\* image is selected.
C8_SaveSuccess ==
    [][/\ lastOp'.op = "save" =>
            \E m \in SentBy({"updateBlock"}) :
               /\ SentBy(AnyKind) = {m}
               /\ m.block = editingBlockId /\ m.via = "save"
               /\ m.content = cleanContentForSave(InnerHTML(editorDom))
               /\ ~HasHandle(m.content) /\ ~HasStateClass(m.content)
               /\ TextOf(m.content) = TextOf(editorDom)
               /\ WrappersOf(m.content) = WrappersOf(editorDom)
       /\ (lastOp'.op = "recvSave" /\ lastOp'.st = "ok") =>
            \E m \in AnsweredBy({"updateBlock"}) :
               /\ m.via = "save"
               /\ \E b \in srvBlocks' :
                     /\ b.id = m.block /\ b.content = m.content
                     /\ BlockOf(page', m.block) = Blk(b.id, b.content, b.order)
               /\ editingBlockId' = NULL
               /\ m.block \in ViewRendered(page', editingBlockId', loading')
               /\ selectedImage' = NULL
      ]_vars

\* a block whose surface held a selected inline image with its handles has
\* been saved: the stored wrapper is bare
C8_Witness ==
    /\ lastOp.op = "recvSave" /\ lastOp.st = "ok"
    /\ editingBlockId = NULL /\ selectedImage = NULL
    /\ HasHandle(editContent)
    /\ \E i \in 1..Len(page.blocks) :
          /\ page.blocks[i].content = StoredWrapper(1, "left")
          /\ page.blocks[i].id \in ViewRendered(page, editingBlockId, loading)

\* C9: when the update request of a save fails (rejected or not OK) no alert
\* is shown, the local block collection is unchanged, the editing state is
\* unchanged (the block stays in editing state) and no request is sent again.
C9_SaveFailure ==
    [][(lastOp'.op = "recvSave" /\ lastOp'.st # "ok") =>
            /\ ~lastOp'.alert
            /\ UNCHANGED <<page, editingBlockId, editContent, editorDom,
                           srvBlocks>>
            /\ SentBy(AnyKind) = {}
      ]_vars

\* a save of typed text has failed: the block is still being edited, its
\* stored content is still empty
C9_Witness ==
    /\ lastOp.op = "recvSave" /\ lastOp.st \in {"fail", "reject"}
    /\ editingBlockId # NULL
    /\ editorDom = <<Txt("x")>>
    /\ BlockOf(page, editingBlockId).content = <<>>
    /\ \A m \in net : m.kind # "updateBlock"

\* C10: a delete request for a block or a page is sent only on the user's
\* confirmation, except the block delete that cancelling an edit of an empty
\* block issues; a declined confirmation sends nothing and leaves block
\* sequence, page selection and editing state unchanged; the delete handlers
\* remove a block from the local sequence only in the continuation of a
\* delete request the server answered with success.
C10_ConfirmedDeletes ==
    [][/\ \A m \in SentBy({"deleteBlock", "deletePage"}) :
            \/ lastOp'.prompt /\ lastOp'.confirmed
                 /\ lastOp'.op \in {"deleteBlock", "deletePage"}
            \/ /\ m.kind = "deleteBlock" /\ lastOp'.op = "cancelEdit"
               /\ m.block = editingBlockId
               /\ BlockOf(page, m.block).content = <<>>
       /\ (lastOp'.op \in {"deleteBlock", "deletePage"}
              /\ ~lastOp'.confirmed) =>
            /\ lastOp'.prompt
            /\ net' = net
            /\ UNCHANGED <<page, selectedPageId, editingBlockId, srvVars>>
       /\ lastOp'.op \in {"deleteBlock", "deletePage", "cancelEdit"} =>
            page' = page /\ srvBlocks' = srvBlocks /\ srvDocs' = srvDocs
       /\ lastOp'.op = "recvDeleteBlock" =>
            \E m \in AnsweredBy({"deleteBlock"}) :
               IF lastOp'.st = "ok"
               THEN /\ \A b \in srvBlocks' : b.id # m.block
                    /\ page' = FilterBlock(m.snap, m.block)
               ELSE page' = page
      ]_vars

\* the user has declined to delete a block: it is still there
C10_Witness ==
    /\ lastOp.op = "deleteBlock" /\ lastOp.prompt /\ ~lastOp.confirmed
    /\ page.blocks # <<>>
    /\ \A m \in net : m.kind # "deleteBlock"

\* C11: choosing k >= 1 files for a new attachment block sends one create
\* request (order = block count, empty content) whatever k is; when the
\* block is created all k files are uploaded against its id; when the upload
\* has been answered, failed or not, the block is appended to the list and
\* is in editing state with empty edit content, with no attachments when the
\* upload failed; when the creation fails no upload is sent and nothing
\* changes.
C11_AttachmentBlock ==
    [][/\ (lastOp'.op = "fileSelected" /\ SentBy(AnyKind) # {}) =>
            /\ \E m \in SentBy({"createForFiles"}) :
                  /\ SentBy(AnyKind) = {m}
                  /\ m.files \in 1..MaxFiles
                  /\ m.order = Len(page.blocks) /\ m.content = <<>>
            /\ UNCHANGED <<page, editingBlockId, editContent>>
       /\ lastOp'.op = "recvFilesCreated" =>
            \E m \in AnsweredBy({"createForFiles"}) :
               IF lastOp'.st = "ok"
               THEN /\ \E u \in SentBy({"uploadFiles"}) :
                          /\ SentBy(AnyKind) = {u}
                          /\ u.files = m.files
                          /\ u.block \notin {b.id : b \in srvBlocks}
                          /\ SrvBlk(u.block, m.doc, <<>>, m.order)
                                \in srvBlocks'
                    /\ Cardinality(srvBlocks') = Cardinality(srvBlocks) + 1
               ELSE /\ SentBy(AnyKind) = {}
                    /\ UNCHANGED <<page, editingBlockId, editContent,
                                   srvBlocks>>
       /\ lastOp'.op = "recvFilesUploaded" =>
            \E m \in AnsweredBy({"uploadFiles"}) :
               /\ page'.blocks =
                     Append(m.snap.blocks,
                            BlkWith(m.block, <<>>, m.order,
                                    IF lastOp'.st = "ok" THEN m.files ELSE 0))
               /\ editingBlockId' = m.block
               /\ editContent' = <<>>
      ]_vars

\* C12: when the update request of a sticky command (foreColor, hiliteColor,
\* fontSize) has been answered the toolbar is displayed as before and the
\* snapshot (selected block id, saved range, saved text) is still held, so a
\* further command of the toolbar still finds its block; every sticky
\* command that is applied sends one update request of its own, for the
\* selected block, and itself leaves toolbar and snapshot as they are.
C12_StickyKeepsToolbar ==
    [][/\ lastOp'.op = "recvFormat" =>
            \A m \in AnsweredBy({"updateBlock"}) :
                Sticky(m.via) =>
                    /\ toolbarShown' = toolbarShown
                    /\ selectedBlockIdRef' = selectedBlockIdRef
                    /\ savedText' = savedText
                    /\ savedRange'.block = savedRange.block
                    /\ savedRange'.kind = savedRange.kind
                    /\ (toolbarShown /\ ToolBlock # NULL) =>
                          /\ ToolBlock' = ToolBlock
                          /\ ~NothingToFormat'
       /\ (lastOp'.op = "format" /\ Sticky(lastOp'.st)
              /\ ~NothingToFormat) =>
            /\ \E m \in SentBy({"updateBlock"}) :
                  /\ SentBy(AnyKind) = {m}
                  /\ m.block = selectedBlockIdRef /\ m.via = lastOp'.st
            /\ toolbarShown'
            /\ UNCHANGED <<selectedBlockIdRef, savedRange, savedText>>
      ]_vars

\* a second colour is applied after the first one was stored: the toolbar
\* is still there, the request is for the same block
C12_Witness ==
    /\ lastOp.op = "format" /\ lastOp.st = "foreColor"
    /\ toolbarShown
    /\ savedRange.kind = "text" /\ ~savedRange.live
    /\ \E m \in net :
          /\ m.kind = "updateBlock" /\ m.via = "foreColor"
          /\ m.block = selectedBlockIdRef
          /\ ~HasMarker(viewDom[m.block])
          /\ \E i \in 1..Len(BlockOf(page, m.block).content) :
                BlockOf(page, m.block).content[i] = Open("font")

\* no snapshot is held: no saved range, no saved text, no selected block id
NoSnapshot ==
    savedRange = NoRange /\ ~savedText /\ selectedBlockIdRef = NULL

\* C13: once a non-sticky command has been applied (its request answered)
\* the toolbar is hidden and the snapshot (saved range, saved text, selected
\* block id) is destroyed; a snapshot exists only between a mouse-up text
\* selection and its dismissal: nothing but a text selection creates one,
\* and a dismissal leaves none.
C13_NonStickyDismisses ==
    [][/\ lastOp'.op = "recvFormat" =>
            \A m \in AnsweredBy({"updateBlock"}) :
                ~Sticky(m.via) => ~toolbarShown' /\ NoSnapshot'
       /\ (NoSnapshot /\ ~NoSnapshot') => lastOp'.op = "textSelection"
       /\ lastOp'.op = "clickOutside" => ~toolbarShown' /\ NoSnapshot'
      ]_vars

\* C14: a format command pressed when there is no selected block id, when
\* the selected block has no rendered surface, or when the surface holds no
\* marker and no range is saved, is a silent no-op: no request is sent, no
\* error is shown, and the block collection, the toolbar's visibility and
\* the snapshot are unchanged.
C14_FormatNoOp ==
    [][(lastOp'.op = "format" /\ NothingToFormat) =>
          /\ SentBy(AnyKind) = {} /\ AnsweredBy(AnyKind) = {}
          /\ ~lastOp'.alert /\ ~lastOp'.prompt /\ crashed' = crashed
          /\ page' = page
          /\ toolbarShown' = toolbarShown
          /\ UNCHANGED <<selectedBlockIdRef, savedRange, savedText>>
      ]_vars

C14_Witness ==
    /\ lastOp.op = "format" /\ toolbarShown
    /\ selectedBlockIdRef # NULL /\ editingBlockId = selectedBlockIdRef
    /\ ToolBlock = NULL /\ savedRange.kind = "text"
    /\ \A m \in net : m.kind # "updateBlock"

\* C15: when the update request of a format command fails (a non-OK
\* response or a rejected fetch), the local block collection is not
\* updated, the change already made on the block's surface is not rolled
\* back (only the selection marker may be unwrapped by the dismissal), and
\* no error is shown.
C15_FormatFailure ==
    [][(lastOp'.op = "recvFormat" /\ lastOp'.st # "ok") =>
          \E m \in AnsweredBy({"updateBlock"}) :
             /\ m.via \in {"bold", "foreColor"}
             /\ page' = page
             /\ \A b \in AllBlockIds :
                   Unmarked(viewDom'[b]) = Unmarked(viewDom[b])
             /\ ~lastOp'.alert /\ ~lastOp'.prompt /\ crashed' = crashed
             /\ SentBy(AnyKind) = {}
      ]_vars

C15_Witness ==
    /\ lastOp.op = "recvFormat" /\ lastOp.st \in {"fail", "reject"}
    /\ \E b \in ViewRendered(page, editingBlockId, loading) :
          /\ \E i \in 1..Len(viewDom[b]) : viewDom[b][i] = Open("b")
          /\ \A i \in 1..Len(BlockOf(page, b).content) :
                BlockOf(page, b).content[i] # Open("b")
          /\ \A s \in srvBlocks : s.id = b =>
                \A i \in 1..Len(s.content) : s.content[i] # Open("b")

\* C16: after a dismissal of the toolbar (a pointer press outside, or a
\* mouse-up that leaves no selection), whatever text selections in one or in
\* several blocks came before it, the toolbar is hidden, the saved range,
\* saved text and selected block id are cleared, the colour and font-size
\* pickers are closed, and no block surface contains a selection marker.
C16_DismissalCleansUp ==
    [][(\/ lastOp'.op = "clickOutside"
        \/ lastOp'.op = "textSelection" /\ lastOp'.st = "none") =>
          /\ ~toolbarShown' /\ NoSnapshot' /\ pickers' = {}
          /\ \A b \in AllBlockIds : ~HasMarker(viewDom'[b])
      ]_vars

\* C17: while the toolbar is shown, pressing Escape dismisses it (toolbar
\* hidden, snapshot cleared), and so does a pointer press outside every
\* tracked block surface and outside the toolbar; a pointer press inside a
\* tracked block surface or inside the toolbar does not dismiss it.
C17_EscapeAndOutsideDismiss ==
    [][toolbarShown =>
          /\ lastOp'.op \in {"escape", "clickOutside"} =>
                ~toolbarShown' /\ NoSnapshot'
          /\ lastOp'.op = "pressInside" =>
                /\ toolbarShown'
                /\ UNCHANGED <<selectedBlockIdRef, savedRange, savedText>>
      ]_vars

\* ------------------------------------------- marker stripping under test
MaxPayload == 2   \* top-level items inside the marker of a stripping input

\* what a view surface shows around and inside a selection
StripItems ==
    {<<Txt("x")>>,
     <<Open("b"), Txt("x"), Close("b")>>,
     <<Open("font"), Txt("x"), Close("font")>>,
     SanWrapper(1, "left", {}, FALSE)}

RECURSIVE Payloads(_)
Payloads(n) ==
    IF n = 1 THEN StripItems
    ELSE Payloads(n - 1) \cup
         {a \o b : a \in StripItems, b \in Payloads(n - 1)}

\* blockRef.innerHTML of a surface whose selection is wrapped in the marker
StripInputs ==
    {pre \o <<MarkerOpen>> \o pay \o <<Close("span")>> \o post :
        pre \in StripItems \cup {<<>>}, pay \in Payloads(MaxPayload),
        post \in StripItems \cup {<<>>}}

StripInit ==
    /\ AppInit
    /\ sanIn \in StripInputs
    /\ sanOut = <<>> /\ sanOut2 = <<>> /\ sanPc = "input"

\* const cleanContent = content.replace(markerRegex, '$1')
StripApply ==
    /\ sanPc = "input"
    /\ sanOut' = StripMarker(sanIn)
    /\ sanPc' = "stripped"
    /\ UNCHANGED <<srvVars, clientVars, net, lastOp, sanIn, sanOut2>>

SpecStrip == StripInit /\ [][StripApply]_vars

\* C18: for every serialized surface markup that contains the marker span,
\* the stripping step yields the markup without the marker's own opening
\* and closing tags and with everything else unchanged: the payload keeps
\* its text, its tags and its nesting, also when it contains span elements.
C18_StripKeepsPayload ==
    (sanPc = "stripped" /\ HasMarker(sanIn)) =>
        sanOut = Unwrapped(sanIn, MarkerAt(sanIn))

\* C19: for every wrap mode w and a selected inline image of the editing
\* surface, setting the wrap mode to w and reading it back yields w: from
\* the wrapper's data-wrap attribute, from the imageWrap state, from the
\* content after the sanitizer, and by selecting the image again (the state
\* always is the attribute of the selected image); with no image selected,
\* setting the wrap mode changes nothing.
C19_WrapRoundTrip ==
    [][/\ (lastOp'.op = "changeImageWrap"
              /\ selectedImage \in NodesOf(editorDom)) =>
            /\ lastOp'.st \in WrapModes
            /\ selectedImage' = selectedImage
            /\ imageWrap' = lastOp'.st
            /\ \E i \in 1..Len(editorDom') :
                  /\ IsWrapper(editorDom'[i])
                  /\ editorDom'[i].nid = selectedImage
                  /\ editorDom'[i].wrap = lastOp'.st
                  /\ \E j \in 1..Len(cleanContentForSave(editContent')) :
                        LET t == cleanContentForSave(editContent')[j]
                        IN  /\ IsWrapper(t) /\ t.file = editorDom'[i].file
                            /\ t.wrap = lastOp'.st
       /\ (lastOp'.op = "changeImageWrap" /\ selectedImage = NULL) =>
            /\ UNCHANGED <<editorDom, selectedImage, imageWrap, editContent,
                           page, srvBlocks>>
            /\ SentBy(AnyKind) = {}
       /\ (lastOp'.op = "editorClick" /\ selectedImage' # NULL) =>
            \E i \in 1..Len(editorDom) :
               /\ IsWrapper(editorDom[i])
               /\ editorDom[i].nid = selectedImage'
               /\ imageWrap' = editorDom[i].wrap
       /\ selectedImage' \in NodesOf(editorDom') =>
            imageWrap' = WrapOf(editorDom', selectedImage')
      ]_vars

\* an image whose wrap mode was set to tight-right and saved is selected
\* again in a new edit of the block
C19_Witness ==
    /\ lastOp.op = "editorClick"
    /\ selectedImage \in NodesOf(editorDom)
    /\ imageWrap = "tight-right"
    /\ editingBlockId # NULL
    /\ BlockOf(page, editingBlockId).content = StoredWrapper(1, "tight-right")
    /\ editContent = StoredWrapper(1, "tight-right")

\* -------------------------------------------- font-size readback under test
MaxPx == 40   \* largest computed font size (px) of an input
NaN   == -1   \* parseInt of a string that holds no number

\* the size attributes execCommand('fontSize', n) writes
SizeAttrs == <<"1", "2", "3", "4", "5", "6", "7">>

\* parseInt(fontTag.getAttribute('size') || '3')
ParseSize(attr) ==
    IF attr = "" THEN 3
    ELSE CHOOSE n \in 1..Len(SizeAttrs) : SizeAttrs[n] = attr

\* what getCurrentFontSize looks at: which range there is ("live": the
\* window's selection, "saved": savedRangeRef.current, "none"), whether its
\* container resolves to an element, the size attribute of the closest
\* font[size] ("none" without one) and parseInt(computed font size)
FontInput(range, element, font, px) ==
    [range |-> range, element |-> element, font |-> font, px |-> px]

FontInputs ==
    {FontInput("none", FALSE, "none", NaN)}
        \cup {FontInput(r, FALSE, "none", NaN) : r \in {"live", "saved"}}
        \cup {FontInput(r, TRUE, f, p) :
                r \in {"live", "saved"},
                f \in {"none", ""} \cup {SizeAttrs[n] : n \in 1..Len(SizeAttrs)},
                p \in 0..MaxPx \cup {NaN}}

\* a readback that has no band for 17 and 18 px
getCurrentFontSizeNoFour(in) ==
    IF in.range = "none" THEN 3
    ELSE IF ~in.element THEN 3
    ELSE IF in.font # "none" THEN ParseSize(in.font)
    ELSE IF in.px # NaN /\ in.px <= 10 THEN 1
    ELSE IF in.px # NaN /\ in.px <= 13 THEN 2
    ELSE IF in.px # NaN /\ in.px <= 16 THEN 3
    ELSE IF in.px # NaN /\ in.px <= 24 THEN 5
    ELSE IF in.px # NaN /\ in.px <= 32 THEN 6
    ELSE 7

\* getCurrentFontSize(): comparisons with NaN are false
getCurrentFontSize(in) ==
    IF in.range = "none" THEN 3
    ELSE IF ~in.element THEN 3
    ELSE IF in.font # "none" THEN ParseSize(in.font)
    ELSE IF in.px # NaN /\ in.px <= 10 THEN 1
    ELSE IF in.px # NaN /\ in.px <= 13 THEN 2
    ELSE IF in.px # NaN /\ in.px <= 16 THEN 3
    ELSE IF in.px # NaN /\ in.px <= 18 THEN 4
    ELSE IF in.px # NaN /\ in.px <= 24 THEN 5
    ELSE IF in.px # NaN /\ in.px <= 32 THEN 6
    ELSE 7

FontInit ==
    /\ AppInit
    /\ sanIn \in FontInputs
    /\ sanOut = <<>> /\ sanOut2 = <<>> /\ sanPc = "input"

\* the A- button: Math.max(1, getCurrentFontSize() - 1).toString()
DecreaseFont ==
    /\ sanPc = "input"
    /\ sanOut' = getCurrentFontSize(sanIn)
    /\ sanOut2' = SizeAttrs[IF getCurrentFontSize(sanIn) - 1 >= 1
                            THEN getCurrentFontSize(sanIn) - 1 ELSE 1]
    /\ sanPc' = "smaller"
    /\ UNCHANGED <<srvVars, clientVars, net, lastOp, sanIn>>

\* the A+ button: Math.min(7, getCurrentFontSize() + 1).toString()
IncreaseFont ==
    /\ sanPc = "input"
    /\ sanOut' = getCurrentFontSize(sanIn)
    /\ sanOut2' = SizeAttrs[IF getCurrentFontSize(sanIn) + 1 <= 7
                            THEN getCurrentFontSize(sanIn) + 1 ELSE 7]
    /\ sanPc' = "larger"
    /\ UNCHANGED <<srvVars, clientVars, net, lastOp, sanIn>>

FontNext == DecreaseFont \/ IncreaseFont

SpecFont == FontInit /\ [][FontNext]_vars

MaxDelta  == 3    \* pointer deltas are -MaxDelta..MaxDelta steps
DeltaStep == 60   \* pixels of one step of a pointer delta
MinSize   == 50   \* Math.max(50, ...)

\* sizes are exact fractions of a pixel: newWidth / aspectRatio is
\* newWidth * startHeight / startWidth
Frac(n, d) == [n |-> n, d |-> d]
FracLess(f, k) == f.n < k * f.d
AtLeastMin(f) == IF FracLess(f, MinSize) THEN Frac(MinSize, 1) ELSE f
Abs(x) == IF x < 0 THEN -x ELSE x

\* handle.includes(c)
HandleChars(h) ==
    CASE h = "nw" -> {"n", "w"} [] h = "n" -> {"n"} [] h = "ne" -> {"n", "e"}
      [] h = "w" -> {"w"} [] h = "e" -> {"e"}
      [] h = "sw" -> {"s", "w"} [] h = "s" -> {"s"} [] h = "se" -> {"s", "e"}

\* a resize that keeps the pointer's size at a corner as it is
NewSizeFree(h, sw, sh, dx, dy) ==
    LET w1 == IF "w" \in HandleChars(h) THEN sw - dx
              ELSE IF "e" \in HandleChars(h) THEN sw + dx ELSE sw
        h1 == IF "n" \in HandleChars(h) THEN sh - dy
              ELSE IF "s" \in HandleChars(h) THEN sh + dy ELSE sh
    IN  [w |-> AtLeastMin(Frac(w1, 1)), h |-> AtLeastMin(Frac(h1, 1))]

\* a resize without a minimum size
NewSizeNoMin(h, sw, sh, dx, dy) ==
    LET w1 == IF "w" \in HandleChars(h) THEN sw - dx
              ELSE IF "e" \in HandleChars(h) THEN sw + dx ELSE sw
        h1 == IF "n" \in HandleChars(h) THEN sh - dy
              ELSE IF "s" \in HandleChars(h) THEN sh + dy ELSE sh
        corner == Cardinality(HandleChars(h)) = 2
        wide   == Abs(dx) > Abs(dy)
    IN  [w |-> IF corner /\ ~wide THEN Frac(h1 * sw, sh) ELSE Frac(w1, 1),
         h |-> IF corner /\ wide THEN Frac(w1 * sh, sw) ELSE Frac(h1, 1)]

\* onMouseMove of a resize: the size the image gets
NewSize(h, sw, sh, dx, dy) ==
    LET w1 == IF "w" \in HandleChars(h) THEN sw - dx
              ELSE IF "e" \in HandleChars(h) THEN sw + dx ELSE sw
        h1 == IF "n" \in HandleChars(h) THEN sh - dy
              ELSE IF "s" \in HandleChars(h) THEN sh + dy ELSE sh
        corner == Cardinality(HandleChars(h)) = 2
        wide   == Abs(dx) > Abs(dy)
    IN  [w |-> AtLeastMin(IF corner /\ ~wide THEN Frac(h1 * sw, sh)
                          ELSE Frac(w1, 1)),
         h |-> AtLeastMin(IF corner /\ wide THEN Frac(w1 * sh, sw)
                          ELSE Frac(h1, 1))]

\* img.offsetWidth, img.offsetHeight when the handle is pressed
StartSizes == {<<200, 100>>, <<90, 120>>, <<40, 40>>}
Deltas == {k * DeltaStep : k \in (-MaxDelta)..MaxDelta}

\* the mousedown on a handle: the resize has started, nothing has moved
ResizeInit ==
    /\ AppInit
    /\ \E h \in {Handles[i] : i \in 1..Len(Handles)}, s \in StartSizes :
          /\ sanIn = [handle |-> h, sw |-> s[1], sh |-> s[2]]
          /\ sanOut = [w |-> Frac(s[1], 1), h |-> Frac(s[2], 1)]
    /\ sanOut2 = <<>> /\ sanPc = "resizing"

ResizeMove(dx, dy) ==
    /\ sanPc = "resizing"
    /\ sanOut' = NewSize(sanIn.handle, sanIn.sw, sanIn.sh, dx, dy)
    /\ sanOut2' = <<dx, dy>>
    /\ UNCHANGED <<srvVars, clientVars, net, lastOp, sanIn, sanPc>>

\* onMouseUp: isResizingRef.current = false, the listeners are removed
ResizeEnd ==
    /\ sanPc = "resizing" /\ sanOut2 # <<>>
    /\ sanPc' = "released"
    /\ UNCHANGED <<srvVars, clientVars, net, lastOp, sanIn, sanOut, sanOut2>>

ResizeNext ==
    \/ \E dx \in Deltas, dy \in Deltas : ResizeMove(dx, dy)
    \/ ResizeEnd

SpecResize == ResizeInit /\ [][ResizeNext]_vars

\* the pointer has moved in a resize by the handle h
Moved(h) == sanPc \in {"resizing", "released"} /\ sanOut2 # <<>>
                /\ sanIn.handle = h

\* C21: a resize by a corner handle keeps the aspect ratio
\* r = startWidth / startHeight after every pointer move: when |deltaX| >
\* |deltaY| the height is newWidth / r, otherwise the width is newHeight * r,
\* each dimension then raised to 50 when it is below (so the ratio is r
\* whenever no dimension was raised); for 200 x 100 and a dominating
\* horizontal drag the height is newWidth / 2.
C21_CornerKeepsRatio ==
    \A c \in {"nw", "ne", "sw", "se"} : Moved(c) =>
        LET sw == sanIn.sw
            sh == sanIn.sh
            dx == sanOut2[1]
            dy == sanOut2[2]
            nw == IF c \in {"ne", "se"} THEN sw + dx ELSE sw - dx
            nh == IF c \in {"sw", "se"} THEN sh + dy ELSE sh - dy
            w  == sanOut.w
            h  == sanOut.h
        IN  /\ Abs(dx) > Abs(dy) =>
                /\ IF nw < 50 THEN w = Frac(50, 1) ELSE w = Frac(nw, 1)
                /\ IF nw * sh < 50 * sw THEN h = Frac(50, 1)
                   ELSE h.n * sw = nw * sh * h.d
                /\ (sw = 200 /\ sh = 100 /\ nw >= 100) => 2 * h.n = nw * h.d
            /\ Abs(dx) <= Abs(dy) =>
                /\ IF nh < 50 THEN h = Frac(50, 1) ELSE h = Frac(nh, 1)
                /\ IF nh * sw < 50 * sh THEN w = Frac(50, 1)
                   ELSE w.n * sh = nh * sw * w.d
            /\ (~FracLess(Frac(nw, 1), 50) /\ ~FracLess(Frac(nh, 1), 50)
                    /\ w # Frac(50, 1) /\ h # Frac(50, 1)) =>
                  w.n * h.d * sh = h.n * w.d * sw

\* a 200 x 100 image dragged by its se corner 120 px to the right: 320 x 160
C21_Witness ==
    /\ Moved("se") /\ sanIn.sw = 200 /\ sanIn.sh = 100
    /\ sanOut2 = <<120, 60>>
    /\ sanOut.w = Frac(320, 1) /\ sanOut.h.n = 160 * sanOut.h.d

\* the size after a move is at least 50 x 50
AtLeastMinSize ==
    ~FracLess(sanOut.w, MinSize) /\ ~FracLess(sanOut.h, MinSize)

\* C22 as stated: for every handle and every sequence of pointer moves the
\* width and the height set after each move are both at least 50, and an
\* edge handle (n, s, e, w) changes only the dimension on its own axis and
\* leaves the other dimension at its start value.
C22_MinSizeOtherAxisKept ==
    \A c \in {Handles[i] : i \in 1..Len(Handles)} : Moved(c) =>
        /\ AtLeastMinSize
        /\ c \in {"n", "s"} => sanOut.w = Frac(sanIn.sw, 1)
        /\ c \in {"e", "w"} => sanOut.h = Frac(sanIn.sh, 1)

\* C22 amended: both dimensions are at least 50 after each move, and an edge
\* handle leaves the other dimension at its start value when that is at
\* least 50; a start value below 50 becomes 50.
C22_MinSizeOtherAxisClamped ==
    \A c \in {Handles[i] : i \in 1..Len(Handles)} : Moved(c) =>
        /\ AtLeastMinSize
        /\ c \in {"n", "s"} =>
              sanOut.w = Frac(IF sanIn.sw < 50 THEN 50 ELSE sanIn.sw, 1)
        /\ c \in {"e", "w"} =>
              sanOut.h = Frac(IF sanIn.sh < 50 THEN 50 ELSE sanIn.sh, 1)
        /\ c = "s" => sanOut.h = AtLeastMin(Frac(sanIn.sh + sanOut2[2], 1))
        /\ c = "n" => sanOut.h = AtLeastMin(Frac(sanIn.sh - sanOut2[2], 1))
        /\ c = "e" => sanOut.w = AtLeastMin(Frac(sanIn.sw + sanOut2[1], 1))
        /\ c = "w" => sanOut.w = AtLeastMin(Frac(sanIn.sw - sanOut2[1], 1))

\* a 40 x 40 image pulled down by its s handle: 50 wide, 100 high
C22_Witness ==
    /\ Moved("s") /\ sanIn.sw = 40 /\ sanIn.sh = 40
    /\ sanOut2[2] = 60
    /\ sanOut.w = Frac(50, 1) /\ sanOut.h = Frac(100, 1)

\* ============================================== inline images of one block
MaxPicked == 2   \* image files inserted into one editing surface

\* the n smallest request numbers not in `used`
RECURSIVE FreshSeqs(_, _)
FreshSeqs(used, n) ==
    IF n = 0 THEN {}
    ELSE LET s == CHOOSE s \in 1..(Cardinality(used) + 1) :
                      /\ s \notin used
                      /\ \A j \in 1..(s - 1) : j \in used
         IN  {s} \cup FreshSeqs(used \cup {s}, n - 1)

\* the file input's onChange and the drop of files on the editor:
\* Array.from(files).forEach(file => insertImageIntoEditor(file)); every
\* call runs up to its await in the same render, so that all of them hold
\* the same `selectedImage`
InsertFiles(k) ==
    /\ ~crashed /\ EditorRendered(page, editingBlockId, loading)
    /\ CanSend(k) /\ srvNextFile + Uploading + k - 1 <= MaxPicked
    /\ net' = net \cup
          {Request("upload", NULL, editingBlockId, <<>>, 0, "", 0, page,
                   selectedImage, s) :
              s \in FreshSeqs({m.seq : m \in net}, k)}
    /\ lastOp' = Op("insertFiles", "", FALSE, FALSE, FALSE)
    /\ UNCHANGED <<srvVars, homeVars, blockVars, editVars, viewVars,
                   toolVars, crashed, sanVars>>

\* position of the wrapper node `node` in a surface (0: not there)
IndexOfNode(dom, node) ==
    IF \E i \in 1..Len(dom) : IsWrapper(dom[i]) /\ dom[i].nid = node
    THEN CHOOSE i \in 1..Len(dom) : IsWrapper(dom[i]) /\ dom[i].nid = node
    ELSE 0

\* element.remove() of the element that opens at position i
RemoveAt(dom, i) ==
    IF i = 0 THEN dom
    ELSE SubSeq(dom, 1, i - 1) \o SubSeq(dom, MatchClose(dom, i) + 1, Len(dom))

\* element.outerHTML of the element that opens at position i
OuterHTML(dom, i) == InnerHTML(SubSeq(dom, i, MatchClose(dom, i)))

\* the wrappers of a surface that carry the class `c`
WithClass(dom, c) ==
    {i \in 1..Len(dom) : IsWrapper(dom[i]) /\ c \in dom[i].cls}

\* getAttribute('data-file-id') of the node deleteSelectedImage holds: a
\* node that left the surface still carries the id of an uploaded file
FileIdOf(dom, node) ==
    IF IndexOfNode(dom, node) # 0 THEN {dom[IndexOfNode(dom, node)].file}
    ELSE 1..(srvNextFile - 1)

\* a delete that forgets to clear the selection
DeleteSelectedImageKeepsSelection ==
    /\ ~crashed /\ EditorRendered(page, editingBlockId, loading)
    /\ IF selectedImage = NULL
       THEN UNCHANGED <<editVars, editContent, net>>
       ELSE \E f \in FileIdOf(editorDom, selectedImage) :
            LET dom2 == RemoveAt(editorDom, IndexOfNode(editorDom, selectedImage))
            IN  /\ CanSend(1)
                /\ editorDom' = dom2
                /\ selectedImage' = selectedImage
                /\ imageWrap' = imageWrap /\ dragData' = dragData
                /\ UNCHANGED gestureVars
                /\ editContent' = InnerHTML(dom2)
                /\ net' = Holding(net, dom2) \cup
                      {[Msg("deleteFile", NULL, editingBlockId, <<>>, 0, "",
                            0, page, NULL) EXCEPT !.file = f]}
    /\ lastOp' = Op("deleteSelectedImage", "", FALSE, FALSE, FALSE)
    /\ UNCHANGED <<srvVars, homeVars, page, loading, editingBlockId, ringed,
                   timers,
                   viewVars, toolVars, crashed, sanVars>>

\* deleteSelectedImage(), from the image toolbar or from Delete / Backspace
\* (both are there only while an image is selected in an open editor)
DeleteSelectedImage ==
    /\ ~crashed /\ EditorRendered(page, editingBlockId, loading)
    /\ IF selectedImage = NULL
       THEN UNCHANGED <<editVars, editContent, net>>
       ELSE \E f \in FileIdOf(editorDom, selectedImage) :
            LET dom2 == RemoveAt(editorDom, IndexOfNode(editorDom, selectedImage))
            IN  /\ CanSend(1)
                /\ editorDom' = dom2
                /\ selectedImage' = NULL
                /\ imageWrap' = imageWrap /\ dragData' = dragData
                /\ UNCHANGED gestureVars
                /\ editContent' = InnerHTML(dom2)
                /\ net' = Holding(net, dom2) \cup
                      {[Msg("deleteFile", NULL, editingBlockId, <<>>, 0, "",
                            0, page, NULL) EXCEPT !.file = f]}
    /\ lastOp' = Op("deleteSelectedImage", "", FALSE, FALSE, FALSE)
    /\ UNCHANGED <<srvVars, homeVars, page, loading, editingBlockId, ringed,
                   timers,
                   viewVars, toolVars, crashed, sanVars>>

\* fetch(`/api/uploads/${fileId}`, {method: 'DELETE'}).catch(console.error):
\* whatever the answer, nothing follows
RecvDeleteFile(m, r) ==
    /\ ~crashed /\ Arrived(m, r) /\ m.kind = "deleteFile"
    /\ net' = net \ {m}
    /\ lastOp' = Op("recvDeleteFile", r.st, FALSE, FALSE, FALSE)
    /\ UNCHANGED <<homeVars, blockVars, editVars, viewVars, toolVars,
                   crashed, sanVars>>

\* the dragstart listener of the editor, on the inline image `node`
DragStart(node) ==
    /\ ~crashed /\ EditorRendered(page, editingBlockId, loading)
    /\ dragData = <<>>
    /\ node \in NodesOf(editorDom)
    /\ LET i    == IndexOfNode(editorDom, node)
           dom2 == [editorDom EXCEPT ![i].cls = @ \cup {"dragging"}]
       IN  /\ editorDom' = dom2
           /\ dragData' = OuterHTML(dom2, i)
           /\ UNCHANGED gestureVars
    /\ lastOp' = Op("dragStart", "", FALSE, FALSE, FALSE)
    /\ UNCHANGED <<srvVars, homeVars, blockVars, selectedImage, imageWrap,
                   viewVars, toolVars, net, crashed, sanVars>>

\* the dragend listener when the drag ends without a drop on the editor
DragEnd ==
    /\ ~crashed /\ dragData # <<>>
    /\ editorDom' = [i \in 1..Len(editorDom) |->
                        IF i \in WithClass(editorDom, "dragging")
                        THEN [editorDom[i] EXCEPT !.cls = @ \ {"dragging"}]
                        ELSE editorDom[i]]
    /\ dragData' = <<>>
    /\ UNCHANGED gestureVars
    /\ lastOp' = Op("dragEnd", "", FALSE, FALSE, FALSE)
    /\ UNCHANGED <<srvVars, homeVars, blockVars, selectedImage, imageWrap,
                   viewVars, toolVars, net, crashed, sanVars>>

NoPoint == -1   \* caretRangeFromPoint found no position

\* editorRef.current.querySelector('.inline-image.dragging') removed
WithoutDragging(dom) ==
    IF WithClass(dom, "dragging") = {} THEN dom
    ELSE RemoveAt(dom, CHOOSE i \in WithClass(dom, "dragging") :
                           \A j \in WithClass(dom, "dragging") : i <= j)

\* temp.innerHTML = html; temp.firstChild without the class `dragging`
Dragged(html) ==
    LET d == Mounted(Parse(html))
    IN  [d EXCEPT ![1].cls = @ \ {"dragging"}]

InsertAt(dom, p, new) == SubSeq(dom, 1, p) \o new \o SubSeq(dom, p + 1, Len(dom))

\* what handleEditorDrop makes of the surface for the drop point p
Dropped(dom1, p) ==
    LET new == Dragged(dragData)
    IN  Selected(InsertAt(dom1, p, new), NodeIn(selectedImage, dom1),
                 new[1].nid)

\* a drop that leaves the dragged element where it was
DropKeepsOriginal(p) ==
    /\ ~crashed /\ EditorRendered(page, editingBlockId, loading)
    /\ dragData # <<>>
    /\ IF p = NoPoint
       THEN UNCHANGED <<editVars, editContent, net>>
       ELSE LET dom1 == editorDom
                dom3 == Dropped(dom1, p)
            IN  /\ p \in 0..Len(dom1)
                /\ editorDom' = dom3
                /\ selectedImage' = Dragged(dragData)[1].nid
                /\ imageWrap' = WrapOf(dom3, Dragged(dragData)[1].nid)
                /\ editContent' = InnerHTML(dom3)
                /\ net' = Holding(Holding(net, dom1), dom3)
                /\ dragData' = <<>>
                /\ UNCHANGED gestureVars
    /\ lastOp' = Op("drop", "", FALSE, FALSE, FALSE)
    /\ UNCHANGED <<srvVars, homeVars, page, loading, editingBlockId, ringed,
                   timers,
                   viewVars, toolVars, crashed, sanVars>>

\* handleEditorDrop for an inline image: the element that carries
\* `dragging` is removed, the markup of the drag is parsed and inserted at
\* the drop point, the new element is selected, editContent follows
Drop(p) ==
    /\ ~crashed /\ EditorRendered(page, editingBlockId, loading)
    /\ dragData # <<>>
    /\ IF p = NoPoint
       THEN UNCHANGED <<editVars, editContent, net>>
       ELSE LET dom1 == WithoutDragging(editorDom)
                dom3 == Dropped(dom1, p)
            IN  /\ p \in 0..Len(dom1)
                /\ editorDom' = dom3
                /\ selectedImage' = Dragged(dragData)[1].nid
                /\ imageWrap' = WrapOf(dom3, Dragged(dragData)[1].nid)
                /\ editContent' = InnerHTML(dom3)
                /\ net' = Holding(Holding(net, dom1), dom3)
                /\ dragData' = <<>>
                /\ UNCHANGED gestureVars
    /\ lastOp' = Op("drop", "", FALSE, FALSE, FALSE)
    /\ UNCHANGED <<srvVars, homeVars, page, loading, editingBlockId, ringed,
                   timers,
                   viewVars, toolVars, crashed, sanVars>>

NoDrag == dragData = <<>>

\* inline images of the block being edited: several inserted at once,
\* selected, deleted, dragged to another place
NextImages ==
    \/ \E p \in documents : SelectPage(p) /\ NoDrag
    \/ \E m \in net, r \in AllReplies : RecvGetDocs(m, r)
    \/ \E m \in net, r \in AllReplies : RecvGetDoc(m, r)
    \/ AddTextBlock /\ page.blocks = <<>> /\ NoDrag /\ OneAtATime'
    \/ \E m \in net, r \in AllReplies : RecvCreateBlock(m, r)
    \/ \E k \in 1..MaxPicked : InsertFiles(k) /\ NoDrag
    \/ \E m \in net, r \in AllReplies : RecvUpload(m, r)
    \/ \E n \in 0..MaxPicked : EditorClick(n) /\ NoDrag
    \/ DeleteSelectedImage /\ NoDrag
    \/ \E m \in net, r \in AllReplies : RecvDeleteFile(m, r)
    \/ \E n \in 1..MaxPicked : DragStart(n)
    \/ \E p \in {NoPoint} \cup 0..(20 * MaxPicked) : Drop(p)
    \/ DragEnd

SpecImages == Init /\ [][NextImages]_vars

\* C23: at most one wrapper of the editing surface carries the class
\* `selected`, and a wrapper that carries it is the recorded selected
\* image: after clicks on images in any order, after several images were
\* inserted in one action, after a drag-reposition, after a click elsewhere
C23_SingleSelection ==
    /\ Cardinality(WithClass(editorDom, "selected")) <= 1
    /\ \A i \in WithClass(editorDom, "selected") :
           editorDom[i].nid = selectedImage

\* C24: deleting the selected inline image (Delete or Backspace while an
\* image is selected in an open editor, or the toolbar's delete button)
\* removes its wrapper from the surface, clears the selection, copies the
\* surface markup into the edit content and sends exactly one delete
\* request, for the wrapper's data-file-id; whatever the answer to that
\* request, the surface, the edit content and the selection stay as they
\* are and nothing is shown; with no image selected nothing is removed and
\* no request is sent.
C24_DeleteSelectedImage ==
    [][/\ (lastOp'.op = "deleteSelectedImage"
              /\ selectedImage \in NodesOf(editorDom)) =>
            LET i == IndexOfNode(editorDom, selectedImage) IN
            /\ editorDom' = SubSeq(editorDom, 1, i - 1)
                   \o SubSeq(editorDom, MatchClose(editorDom, i) + 1,
                             Len(editorDom))
            /\ selectedImage \notin NodesOf(editorDom')
            /\ selectedImage' = NULL
            /\ editContent' = InnerHTML(editorDom')
            /\ Cardinality(SentBy(AnyKind)) = 1
            /\ \A m \in SentBy(AnyKind) :
                  m.kind = "deleteFile" /\ m.file = editorDom[i].file
            /\ ~lastOp'.alert /\ crashed' = crashed
       /\ (lastOp'.op = "deleteSelectedImage" /\ selectedImage = NULL) =>
            /\ UNCHANGED <<editorDom, editContent, selectedImage>>
            /\ SentBy(AnyKind) = {}
       /\ lastOp'.op = "recvDeleteFile" =>
            /\ AnsweredBy(AnyKind) # {}
            /\ \A m \in AnsweredBy(AnyKind) : m.kind = "deleteFile"
            /\ UNCHANGED <<editorDom, editContent, selectedImage>>
            /\ SentBy(AnyKind) = {}
            /\ ~lastOp'.alert /\ ~lastOp'.prompt /\ crashed' = crashed
      ]_vars

\* the delete request of one of two images has failed: the other image is
\* all the surface holds
C24_Witness ==
    /\ lastOp.op = "recvDeleteFile" /\ lastOp.st \in {"fail", "reject"}
    /\ srvNextFile = 3 /\ Cardinality(NodesOf(editorDom)) = 1
    /\ selectedImage = NULL /\ editContent = InnerHTML(editorDom)

\* the wrappers of a surface that carry the data-file-id f
WithFile(dom, f) == {i \in 1..Len(dom) : IsWrapper(dom[i]) /\ dom[i].file = f}

\* C25: a drag-reposition within one editing surface conserves the image,
\* for every drop point: after the drop the surface holds exactly one
\* wrapper with the dragged data-file-id, with the same data-wrap, without
\* the class `dragging`, recorded as the selected image, and the number of
\* wrappers of the surface is unchanged.
C25_DropConservesImage ==
    [][(lastOp'.op = "drop" /\ dragData' # dragData
            /\ WithClass(editorDom, "dragging") # {}) =>
          \A i \in WithClass(editorDom, "dragging") :
             /\ Cardinality(WithFile(editorDom', editorDom[i].file)) = 1
             /\ \A j \in WithFile(editorDom', editorDom[i].file) :
                   /\ editorDom'[j].wrap = editorDom[i].wrap
                   /\ "dragging" \notin editorDom'[j].cls
                   /\ "selected" \in editorDom'[j].cls
                   /\ selectedImage' = editorDom'[j].nid
             /\ WithClass(editorDom', "dragging") = {}
             /\ Cardinality({j \in 1..Len(editorDom') : IsWrapper(editorDom'[j])})
                   = Cardinality({j \in 1..Len(editorDom) : IsWrapper(editorDom[j])})
             /\ editContent' = InnerHTML(editorDom')
      ]_vars

\* the second image has been dropped in front of the first, or the first
\* behind the second
C25_Witness ==
    /\ lastOp.op = "drop" /\ dragData = <<>>
    /\ Cardinality(NodesOf(editorDom)) = 2
    /\ IndexOfNode(editorDom, 2) < IndexOfNode(editorDom, 1)
    /\ MatchClose(editorDom, IndexOfNode(editorDom, 2))
          < IndexOfNode(editorDom, 1)
    /\ selectedImage \in NodesOf(editorDom)

\* ============================================== links to a block of a page
NavDocs == {1, 2}   \* the documents of the server: block b is in document b

\* two documents with one block each
NavInit ==
    /\ srvDocs = NavDocs
    /\ srvBlocks = {SrvBlk(d, d, <<Txt("x")>>, 0) : d \in NavDocs}
    /\ srvNextId = 3 /\ srvNextFile = 1
    /\ ClientInit /\ SanIdle

\* Home's effect on mount: the hash #pageId or #pageId:blockId selects the
\* page and sets the pending block; PageContent and DocumentList fetch
InitialHash(p, b) ==
    /\ ~crashed /\ lastOp = Quiet /\ selectedPageId = NULL
    /\ selectedPageId' = p
    /\ pendingBlockId' = b
    /\ PageReset
    /\ net' = net \cup
          {Request("getDoc", p, NULL, <<>>, 0, "", 0, NoPage, NULL, 2),
           Request("getDocs", NULL, NULL, <<>>, 0, "", 0, NoPage, NULL, 3)}
    /\ lastOp' = Op("initialHash", "", FALSE, FALSE, FALSE)
    /\ UNCHANGED <<srvVars, documents, highlightTerm, scrolledTo, crashed,
                   sanVars>>

\* document.getElementById(b): the element of a rendered block
ElementOf(b) == Shown(page, loading) /\ b \in BlockIds(page)

\* a link handler that always takes the other-page branch
NavigateToBlockAlwaysLoads(p, b) ==
    /\ ~crashed /\ selectedPageId # NULL
    /\ Shown(page, loading) /\ page.blocks # <<>>
    /\ CanSend(2)
    /\ selectedPageId' = p /\ pendingBlockId' = b
    /\ timers' = timers \cup PendingScroll(page, loading, b)
    /\ net' = net \cup
          {Msg("getDoc", p, NULL, <<>>, 0, "", 0, NoPage, NULL),
           Msg("getDocs", NULL, NULL, <<>>, 0, "", 0, NoPage, NULL)}
    /\ UNCHANGED <<scrolledTo, ringed>>
    /\ lastOp' = Op("navigateToBlock", "", FALSE, FALSE, FALSE)
    /\ UNCHANGED <<srvVars, documents, highlightTerm, page, loading,
                   editingBlockId, editContent, editVars, viewVars,
                   toolVars, crashed, sanVars>>

\* handleLinkClick on a same-origin anchor with the hash #p:b, which calls
\* Home.handleNavigateToBlock(p, b)
NavigateToBlock(p, b) ==
    /\ ~crashed /\ selectedPageId # NULL
    /\ Shown(page, loading) /\ page.blocks # <<>>
    /\ IF p = selectedPageId
       THEN /\ IF ElementOf(b)
               THEN /\ scrolledTo' = b
                    /\ ringed' = ringed \cup {b}
                    /\ timers' = timers \cup
                          {[kind |-> "unring", block |-> b, live |-> TRUE]}
               ELSE UNCHANGED <<scrolledTo, ringed, timers>>
            /\ UNCHANGED <<selectedPageId, pendingBlockId, net>>
       ELSE /\ CanSend(2)
            /\ selectedPageId' = p /\ pendingBlockId' = b
            /\ timers' = timers \cup PendingScroll(page, loading, b)
            /\ net' = net \cup
                  {Msg("getDoc", p, NULL, <<>>, 0, "", 0, NoPage, NULL),
                   Msg("getDocs", NULL, NULL, <<>>, 0, "", 0, NoPage, NULL)}
            /\ UNCHANGED <<scrolledTo, ringed>>
    /\ lastOp' = Op("navigateToBlock", "", FALSE, FALSE, FALSE)
    /\ UNCHANGED <<srvVars, documents, highlightTerm, page, loading,
                   editingBlockId, editContent, editVars, viewVars,
                   toolVars, crashed, sanVars>>

\* the 100 ms callback of the pending-block effect: scrollIntoView and the
\* ring on the element it holds (nothing moves when the element has left
\* the document), the 2 s callback is scheduled, onBlockScrolled()
ScrollTimer(t) ==
    /\ ~crashed /\ t \in timers /\ t.kind = "scroll"
    /\ scrolledTo' = IF t.live THEN t.block ELSE scrolledTo
    /\ ringed' = IF t.live THEN ringed \cup {t.block} ELSE ringed
    /\ timers' = (timers \ {t}) \cup {[t EXCEPT !.kind = "unring"]}
    /\ pendingBlockId' = NULL
    /\ lastOp' = Op("pendingScroll", IF t.live THEN "scrolled" ELSE "detached",
                    FALSE, FALSE, FALSE)
    /\ UNCHANGED <<srvVars, documents, selectedPageId, highlightTerm, page,
                   loading, editingBlockId, editContent, editVars, viewVars,
                   toolVars, net, crashed, sanVars>>

\* the 2 s callback: the ring classes are removed from the element
UnringTimer(t) ==
    /\ ~crashed /\ t \in timers /\ t.kind = "unring"
    /\ ringed' = IF t.live THEN ringed \ {t.block} ELSE ringed
    /\ timers' = timers \ {t}
    /\ lastOp' = Op("unring", "", FALSE, FALSE, FALSE)
    /\ UNCHANGED <<srvVars, homeVars, page, loading, editingBlockId,
                   editContent, editVars, viewVars, toolVars, net, crashed,
                   sanVars>>

AllTimers == [kind : {"scroll", "unring"}, block : AllBlockIds, live : BOOLEAN]

\* following links between two pages
NextNav ==
    \/ \E p \in NavDocs, b \in AllBlockIds \cup {NULL} : InitialHash(p, b)
    \/ \E p \in documents : SelectPage(p)
    \/ \E m \in net, r \in AllReplies : RecvGetDocs(m, r)
    \/ \E m \in net, r \in AllReplies : RecvGetDoc(m, r)
    \/ \E p \in NavDocs, b \in AllBlockIds : NavigateToBlock(p, b)
    \/ \E t \in AllTimers : ScrollTimer(t)
    \/ \E t \in AllTimers : UnringTimer(t)

SpecNav == NavInit /\ [][NextNav]_vars

SpecNavFair ==
    /\ NavInit /\ [][NextNav]_vars
    /\ WF_vars(\E t \in AllTimers : ScrollTimer(t))
    /\ WF_vars(\E t \in AllTimers : UnringTimer(t))

\* C28: for every pending block id that is set (by the hash on the initial
\* load or by a link to another page): once the target document is loaded,
\* eventually the block is scrolled to, carries the highlight ring and the
\* pending id is cleared; the ring is removed later; and the pending id is
\* cleared only by a step that has performed the scroll to that block.
C28_PendingScrollCompletes ==
    /\ [][(pendingBlockId # NULL /\ pendingBlockId' = NULL) =>
              /\ lastOp'.op = "pendingScroll" /\ lastOp'.st = "scrolled"
              /\ scrolledTo' = pendingBlockId
         ]_vars
    /\ \A b \in AllBlockIds :
          (pendingBlockId = b /\ selectedPageId = b /\ ElementOf(b))
             ~> (scrolledTo = b /\ b \in ringed /\ pendingBlockId = NULL)
    /\ \A b \in AllBlockIds : (b \in ringed) ~> (b \notin ringed)

\* ================================================= linkifyContent on render
MaxLinkItems == 2   \* top-level items of a block content to linkify

\* what a block content holds around a URL
LinkItems ==
    {<<Txt("x")>>, <<Space>>,
     <<Open("p"), Txt("x"), Close("p")>>}
    \cup UNION {{<<Txt(u)>>,
                 <<Txt("x"), Space, Txt(u)>>,
                 <<Open("p"), Txt(u), Close("p")>>,
                 <<PlainAnchor(u), Txt("x"), Close("a")>>,
                 <<PlainAnchor(u), Txt(u), Close("a")>>,
                 <<PlainAnchor(u), Txt("x"), Space, Txt(u), Close("a")>>} :
                u \in Urls}

\* a URL is the whole run [^\s<"]+: white space, a tag or the end follows it
Tokenized(html) ==
    \A i \in 1..(Len(html) - 1) :
        IsUrl(html[i]) => (html[i + 1] = Space \/ html[i + 1].k # "text")

RECURSIVE LinkContents(_)
LinkContents(n) ==
    IF n = 0 THEN {<<>>}
    ELSE LinkContents(n - 1) \cup
         {a \o b : a \in LinkItems, b \in LinkContents(n - 1)}

LinkInputs == {html \in LinkContents(MaxLinkItems) : Tokenized(html)}

LinkInit ==
    /\ AppInit
    /\ sanIn \in LinkInputs
    /\ sanOut = <<>> /\ sanOut2 = <<>> /\ sanPc = "input"

\* __html: linkifyContent(block.content)
LinkApply ==
    /\ sanPc = "input"
    /\ sanOut' = linkifyContent(sanIn)
    /\ sanPc' = "linkified"
    /\ UNCHANGED <<srvVars, clientVars, net, lastOp, sanIn, sanOut2>>

\* linkifyContent applied to its own result
LinkReapply ==
    /\ sanPc = "linkified"
    /\ sanOut2' = linkifyContent(sanOut)
    /\ sanPc' = "relinkified"
    /\ UNCHANGED <<srvVars, clientVars, net, lastOp, sanIn, sanOut>>

LinkNext == LinkApply \/ LinkReapply

SpecLinkify == LinkInit /\ [][LinkNext]_vars

\* the content with every URL that no anchor encloses wrapped in one anchor
RECURSIVE AnchoredFrom(_, _)
AnchoredFrom(html, i) ==
    IF i > Len(html) THEN <<>>
    ELSE (IF IsUrl(html[i]) /\ EnclosedBy(html, i, "a") = {}
          THEN <<Anchor(html[i].tag), html[i], Close("a")>>
          ELSE <<html[i]>>) \o AnchoredFrom(html, i + 1)

\* C29: on render every plain http(s) URL of a block content that is not
\* inside an anchor is wrapped in exactly one anchor whose href is that URL
\* and which opens in a new context with noopener and noreferrer; a URL
\* that is the href of an anchor or lies in the text of an anchor is left
\* as it is, so that linkifying linkified content changes nothing.
C29_Linkify ==
    /\ sanPc \in {"linkified", "relinkified"} =>
          sanOut = AnchoredFrom(sanIn, 1)
    /\ sanPc = "relinkified" => sanOut2 = sanOut

\* the same, for contents in which no URL follows a tag directly and no
\* anchor holds a URL after other text
C29_LinkifyAfterText ==
    (\A i \in 1..Len(sanIn) :
        IsUrl(sanIn[i]) =>
           /\ i > 1 => (sanIn[i - 1].k = "text" \/ sanIn[i - 1] = PlainAnchor(sanIn[i].tag))
           /\ (EnclosedBy(sanIn, i, "a") # {} => sanIn[i - 1].k # "text"))
      => C29_Linkify

\* linkifying linkified content changes nothing
C29_Idempotent == sanPc = "relinkified" => sanOut2 = sanOut

\* ===================================================== search highlighting
Terms == {"x"}   \* search terms

\* Home.handleSelectSearchResult(pageId, pageTitle, term), a click on a
\* search result: the result list stood in the place of the page while the
\* query was set, so PageContent is mounted anew, with the term
SelectSearchResult(p, t) ==
    /\ ~crashed /\ p \in documents /\ t \in Terms /\ CanSend(2)
    /\ selectedPageId' = p
    /\ highlightTerm' = t
    /\ PageReset
    /\ net' = Orphaned(net) \cup
          {Msg("getDoc", p, NULL, <<>>, 0, "", 0, NoPage, NULL),
           Msg("getDocs", NULL, NULL, <<>>, 0, "", 0, NoPage, NULL)}
    /\ lastOp' = Op("selectSearchResult", t, FALSE, FALSE, FALSE)
    /\ UNCHANGED <<srvVars, documents, linkVars, crashed, sanVars>>

\* the "clear" button of the highlight banner: onClearHighlight()
ClearHighlight ==
    /\ ~crashed /\ selectedPageId # NULL /\ Shown(page, loading)
    /\ highlightTerm # NoTerm
    /\ highlightTerm' = NoTerm
    /\ RenderWith(viewDom, viewEditable, page, editingBlockId, loading,
                  savedRange, NoTerm)
    /\ timers' = TimersAfter(page, loading)
                    \cup PendingScroll(page, loading, pendingBlockId)
    /\ lastOp' = Op("clearHighlight", "", FALSE, FALSE, FALSE)
    /\ UNCHANGED <<srvVars, documents, selectedPageId, linkVars, editContent,
                   editVars, toolbarShown, pickers, savedText,
                   selectedBlockIdRef, net, crashed, sanVars>>

MaxHighlights == 1   \* highlight markers on a surface that is formatted

Highlights(html) == Cardinality({i \in 1..Len(html) : IsMark(html[i])})

\* (a format command on highlighted text stores the marker with the text,
\* and the next render under a term adds a marker inside it)
FewHighlights ==
    \A b \in AllBlockIds : Highlights(viewDom[b]) <= MaxHighlights

\* search results, the floating toolbar and the editor on a one-block page
NextSearch ==
    \/ \E p \in documents : SelectPage(p)
    \/ \E p \in documents, t \in Terms :
          SelectSearchResult(p, t) /\ OneAtATime'
    \/ ClearHighlight
    \/ \E m \in net, r \in AllReplies : RecvGetDocs(m, r)
    \/ \E m \in net, r \in AllReplies : RecvGetDoc(m, r)
    \/ AddTextBlock /\ page.blocks = <<>> /\ OneAtATime'
    \/ \E m \in net, r \in AllReplies : RecvCreateBlock(m, r)
    \/ \E b \in AllBlockIds : StartEdit(b)
    \/ \E d \in Typed(editorDom) : EditorInput(d)
    \/ \E b \in AllBlockIds : Save(b) /\ OneAtATime'
    \/ \E m \in net, r \in AllReplies : RecvSave(m, r)
    \/ \E b \in AllBlockIds, sel \in {"none", "text"} : TextSelection(b, sel)
    \/ Format("bold") /\ OneAtATime' /\ FewHighlights
    \/ \E m \in net, r \in AllReplies : RecvFormat(m, r)

SpecSearch == Init /\ [][NextSearch]_vars

HasHighlight(html) == \E i \in 1..Len(html) : IsMark(html[i])

\* once the term is cleared no rendered block holds a highlight marker
C30_NoHighlightRendered ==
    highlightTerm = NoTerm =>
       \A b \in ViewRendered(page, editingBlockId, loading) :
          ~HasHighlight(viewDom[b])

\* no content sent to persistence holds a highlight marker
C30_NoHighlightSent ==
    \A m \in net :
       m.kind \in {"createBlock", "updateBlock"} => ~HasHighlight(m.content)

\* C30: search highlighting is removed by clearing the term: for every
\* sequence of setting a highlight term, formatting text through the
\* floating toolbar, saving and clearing the term, no rendered block holds a
\* highlight marker once the term is cleared, and no content sent to
\* persistence ever holds a highlight marker.
C30_HighlightRemoved == C30_NoHighlightRendered /\ C30_NoHighlightSent

\* ======================================================== stale responses
\* the response of an update of block a leaves every other block of the
\* local collection as it is, and does not put a back
StaleIgnored(a) ==
    /\ \A b \in AllBlockIds \ {a} :
          /\ b \notin BlockIds(page) => b \notin BlockIds(page')
          /\ b \in BlockIds(page) =>
                (b \in BlockIds(page') /\ BlockOf(page', b) = BlockOf(page, b))
    /\ a \notin BlockIds(page) => a \notin BlockIds(page')

\* C31: a stale response is never applied against newer state: if block B
\* is deleted, or updated with newer content, in the local collection while
\* an update or format request for another block A is in flight, then after
\* A's response is applied B is still absent (still holds its newer
\* content); a response for a block that was itself deleted in the meantime
\* does not add it again.
C31_StaleResponse ==
    [][(lastOp'.op \in {"recvSave", "recvFormat"} /\ lastOp'.st = "ok") =>
          \A m \in AnsweredBy({"updateBlock"}) : StaleIgnored(m.block)
      ]_vars

\* C32: a view-mode block surface is editable only while a selection
\* capture or a format command is executing: when handleTextSelection or
\* applyFloatingFormat has returned, on every path (the marker could not be
\* wrapped, the range could not be restored, the re-selection of a sticky
\* command fell back), the contentEditable of the surface is false.
C32_ViewNeverLeftEditable ==
    \A b \in ViewRendered(page, editingBlockId, loading) : ~viewEditable[b]

\* ========================================================= resize gesture
\* the positions inside the wrapper node `node` of a surface
InsideOf(dom, node) ==
    LET i == IndexOfNode(dom, node)
    IN  IF i = 0 THEN {} ELSE (i + 1)..(MatchClose(dom, i) - 1)

\* img.style.width / height / maxWidth set on the image of the wrapper
Resized(dom, node) ==
    [i \in 1..Len(dom) |->
        IF i \in InsideOf(dom, node) /\ dom[i].tag = "img"
        THEN [dom[i] EXCEPT !.style = "sized"] ELSE dom[i]]

ResizeListeners(node) ==
    {[type |-> "mousemove", node |-> node], [type |-> "mouseup", node |-> node]}

\* a press on a handle that attaches no listener
ResizeMouseDownNoListeners(node) ==
    /\ ~crashed /\ EditorRendered(page, editingBlockId, loading)
    /\ listeners = {}
    /\ \E i \in InsideOf(editorDom, node) : IsHandle(editorDom[i])
    /\ editorDom' = Selected(editorDom, selectedImage, node)
    /\ selectedImage' = node
    /\ imageWrap' = WrapOf(editorDom, node)
    /\ isResizing' = TRUE
    /\ listeners' = {}
    /\ lastOp' = Op("resizeStart", "", FALSE, FALSE, FALSE)
    /\ UNCHANGED <<srvVars, homeVars, blockVars, dragData, viewVars, toolVars,
                   net, crashed, sanVars>>

\* handleMouseDown of the editor on a resize handle of the wrapper `node`
\* (the pointer was up: no resize listener is attached)
ResizeMouseDown(node) ==
    /\ ~crashed /\ EditorRendered(page, editingBlockId, loading)
    /\ listeners = {}
    /\ \E i \in InsideOf(editorDom, node) : IsHandle(editorDom[i])
    /\ editorDom' = Selected(editorDom, selectedImage, node)
    /\ selectedImage' = node
    /\ imageWrap' = WrapOf(editorDom, node)
    /\ isResizing' = TRUE
    /\ listeners' =
          IF \E i \in InsideOf(editorDom, node) : editorDom[i].tag = "img"
          THEN ResizeListeners(node) ELSE {}
    /\ lastOp' = Op("resizeStart", "", FALSE, FALSE, FALSE)
    /\ UNCHANGED <<srvVars, homeVars, blockVars, dragData, viewVars, toolVars,
                   net, crashed, sanVars>>

\* onMouseMove of the gesture
ResizeMouseMove(l) ==
    /\ ~crashed /\ l \in listeners /\ l.type = "mousemove"
    /\ editorDom' = IF isResizing THEN Resized(editorDom, l.node)
                    ELSE editorDom
    /\ lastOp' = Op("resizeMove", "", FALSE, FALSE, FALSE)
    /\ UNCHANGED <<srvVars, homeVars, blockVars, selectedImage, imageWrap,
                   dragData, gestureVars, viewVars, toolVars, net, crashed,
                   sanVars>>

\* onMouseUp of the gesture, with its handleEditorInput()
ResizeMouseUp(l) ==
    /\ ~crashed /\ l \in listeners /\ l.type = "mouseup"
    /\ isResizing' = FALSE
    /\ listeners' = listeners \ ResizeListeners(l.node)
    /\ editContent' = IF EditorRendered(page, editingBlockId, loading)
                      THEN InnerHTML(editorDom) ELSE editContent
    /\ lastOp' = Op("resizeEnd", "", FALSE, FALSE, FALSE)
    /\ UNCHANGED <<srvVars, homeVars, page, loading, editingBlockId, ringed,
                   timers, editorDom, selectedImage, imageWrap, dragData,
                   viewVars, toolVars, net, crashed, sanVars>>

NoGesture == listeners = {}
AllListeners == UNION {ResizeListeners(n) : n \in 1..MaxUploads}

\* resizing the inline images of the block being edited
NextGesture ==
    \/ \E p \in documents : SelectPage(p) /\ NoGesture
    \/ \E m \in net, r \in AllReplies : RecvGetDocs(m, r)
    \/ \E m \in net, r \in AllReplies : RecvGetDoc(m, r)
    \/ AddTextBlock /\ page.blocks = <<>> /\ NoGesture /\ OneAtATime'
    \/ \E m \in net, r \in AllReplies : RecvCreateBlock(m, r)
    \/ \E b \in AllBlockIds : StartEdit(b) /\ NoGesture
    \/ InsertImage /\ NoGesture /\ OneAtATime'
    \/ \E m \in net, r \in AllReplies : RecvUpload(m, r)
    \/ \E n \in 0..MaxUploads : EditorClick(n) /\ NoGesture
    \/ \E b \in AllBlockIds : Save(b) /\ NoGesture /\ OneAtATime'
    \/ \E m \in net, r \in AllReplies : RecvSave(m, r)
    \/ \E n \in 1..MaxUploads : ResizeMouseDown(n)
    \/ \E l \in AllListeners : ResizeMouseMove(l)
    \/ \E l \in AllListeners : ResizeMouseUp(l)

SpecGesture == Init /\ [][NextGesture]_vars

AddMoreFiles(k) ==
    /\ ~crashed /\ EditorRendered(page, editingBlockId, loading)
    /\ CanSend(k)
    /\ BlockOf(page, editingBlockId).atts + k <= MaxFiles
    /\ net' = net \cup
          {[Request("uploadToBlock", NULL, editingBlockId, <<>>, 0, "", 0,
                    page, NULL, s) EXCEPT !.files = k] :
              s \in FreshSeqs({m.seq : m \in net}, k)}
    /\ lastOp' = Op("addMoreFiles", "", FALSE, FALSE, FALSE)
    /\ UNCHANGED <<srvVars, homeVars, blockVars, editVars, viewVars,
                   toolVars, crashed, sanVars>>

\* {...b, attachments: [...b.attachments, newAttachment]} for the block id
WithAttachment(pg, id) ==
    [pg EXCEPT !.blocks =
        [i \in 1..Len(pg.blocks) |->
            IF pg.blocks[i].id = id
            THEN [pg.blocks[i] EXCEPT !.atts = @ + 1] ELSE pg.blocks[i]]]

\* a continuation that adds the attachment to the current page
RecvUploadToBlockCurrent(m, r) ==
    /\ ~crashed /\ Arrived(m, r) /\ m.kind = "uploadToBlock"
    /\ IF r.st = "ok"
       THEN LET pg2 == WithAttachment(page, m.block)
            IN  /\ Render(pg2, editingBlockId, loading, savedRange)
                /\ Surface(EditorAfterRender(pg2, editingBlockId, loading),
                           selectedImage, net \ {m})
       ELSE /\ net' = net \ {m}
            /\ UNCHANGED <<page, loading, editingBlockId, ringed, timers,
                           viewVars, savedRange, editVars>>
    /\ lastOp' = Op("recvUploadToBlock", r.st, FALSE, FALSE, FALSE)
    /\ UNCHANGED <<homeVars, editContent, toolbarShown, pickers, savedText,
                   selectedBlockIdRef, crashed, sanVars>>

\* handleUploadToBlock after the await
RecvUploadToBlock(m, r) ==
    /\ ~crashed /\ Arrived(m, r) /\ m.kind = "uploadToBlock"
    /\ IF r.st = "ok"
       THEN LET pg2 == WithAttachment(m.snap, m.block)
            IN  /\ Render(pg2, editingBlockId, loading, savedRange)
                /\ Surface(EditorAfterRender(pg2, editingBlockId, loading),
                           selectedImage, net \ {m})
       ELSE /\ net' = net \ {m}
            /\ UNCHANGED <<page, loading, editingBlockId, ringed, timers,
                           viewVars, savedRange, editVars>>
    /\ lastOp' = Op("recvUploadToBlock", r.st, FALSE, FALSE, FALSE)
    /\ UNCHANGED <<homeVars, editContent, toolbarShown, pickers, savedText,
                   selectedBlockIdRef, crashed, sanVars>>

\* attachments added to the block being edited of a one-block page
NextAddMore ==
    \/ \E p \in documents : SelectPage(p)
    \/ \E m \in net, r \in AllReplies : RecvGetDocs(m, r)
    \/ \E m \in net, r \in AllReplies : RecvGetDoc(m, r)
    \/ AddTextBlock /\ page.blocks = <<>> /\ OneAtATime'
    \/ \E m \in net, r \in AllReplies : RecvCreateBlock(m, r)
    \/ \E d \in Typed(editorDom) : EditorInput(d)
    \/ \E k \in 1..MaxFiles : AddMoreFiles(k)
    \/ \E m \in net, r \in AllReplies : RecvUploadToBlock(m, r)

SpecAddMore == Init /\ [][NextAddMore]_vars

SrvAtts(blocks, b) ==
    IF \E s \in blocks : s.id = b
    THEN (CHOOSE s \in blocks : s.id = b).atts ELSE 0

\* C34: when k files are added to an existing block in one action and all k
\* upload requests succeed, then once all responses have been applied the
\* local attachment list of the block holds the k new attachments in
\* addition to those it had before, whatever the order of the responses.
C34_AllAttachmentsKept ==
    [][\A m \in AnsweredBy({"uploadToBlock"}) :
          LET before == BlockOf(m.snap, m.block).atts
          IN  (/\ lastOp'.op = "recvUploadToBlock"
               /\ \A n \in net' : n.kind # "uploadToBlock"
               /\ SrvAtts(srvBlocks', m.block) = before + m.files
               /\ m.block \in BlockIds(page'))
                 => BlockOf(page', m.block).atts = before + m.files
      ]_vars

\* C35: a confirmed deletion of a block B that is in viewing state leaves
\* the editing state of every other block unchanged: a block A that is in
\* editing state before B is deleted is still the block in editing state,
\* with its in-surface changes, when the deletion of B has completed.
C35_DeleteKeepsEditing ==
    [][(lastOp'.op = "recvDeleteBlock" /\ lastOp'.st = "ok") =>
          \A m \in AnsweredBy({"deleteBlock"}) :
             (/\ m.via = "button"
              /\ EditorRendered(page, editingBlockId, loading)
              /\ editingBlockId # m.block)
                => /\ editingBlockId' = editingBlockId
                   /\ EditorRendered(page', editingBlockId', loading')
                   /\ editorDom' = editorDom /\ editContent' = editContent
      ]_vars

\* C36: a selection snapshot created while an earlier non-sticky format
\* request is in flight is not destroyed by the completion of that request:
\* when the earlier command has finished the toolbar is still shown and the
\* saved range, the selected block id and the marker of the newer selection
\* are intact.
C36_NewerSelectionSurvives ==
    [][(/\ lastOp.op = "textSelection" /\ lastOp.st \in {"text", "cross"}
        /\ lastOp'.op = "recvFormat"
        /\ \E m \in AnsweredBy({"updateBlock"}) : ~Sticky(m.via))
          => /\ toolbarShown'
             /\ selectedBlockIdRef' = selectedBlockIdRef
             /\ savedRange' = savedRange
             /\ \A b \in AllBlockIds :
                   HasMarker(viewDom[b]) => HasMarker(viewDom'[b])
      ]_vars

\* ========================================================= order of blocks
\* a document that holds one block of order 1: what is left of two blocks
\* created one after the other (orders 0 and 1) once the first is deleted
OrderInit ==
    /\ srvDocs = {1} /\ srvNextId = 2 /\ srvNextFile = 1
    /\ srvBlocks = {SrvBlk(1, 1, <<Txt("x")>>, 1)}
    /\ ClientInit /\ SanIdle

\* creating and deleting the blocks of a page, one request at a time
NextOrder ==
    \/ \E p \in documents : SelectPage(p)
    \/ \E m \in net, r \in AllReplies : RecvGetDocs(m, r)
    \/ \E m \in net, r \in AllReplies : RecvGetDoc(m, r)
    \/ AddTextBlock /\ OneAtATime'
    \/ \E m \in net, r \in AllReplies : RecvCreateBlock(m, r)
    \/ \E d \in Typed(editorDom) : EditorInput(d)
    \/ \E b \in AllBlockIds : Save(b) /\ OneAtATime'
    \/ \E m \in net, r \in AllReplies : RecvSave(m, r)
    \/ \E b \in AllBlockIds : CancelEdit(b) /\ OneAtATime'
    \/ \E b \in AllBlockIds, c \in BOOLEAN : DeleteBlock(b, c) /\ OneAtATime'
    \/ \E m \in net, r \in AllReplies : RecvDeleteBlock(m, r)

SpecOrder == OrderInit /\ [][NextOrder]_vars

IdsOf(s) == [i \in 1..Len(s) |-> s[i].id]

\* C37: after any sequence of block creations and deletions on a document
\* the order given to a newly created block is strictly greater than the
\* order of every block already in the document, so that the orders of the
\* blocks of a document stay pairwise distinct and the sequence of blocks
\* sorted by order (what a reload returns) is the local sequence of blocks.
C37_OrdersIncrease ==
    /\ [][(lastOp'.op = "recvCreateBlock" /\ lastOp'.st = "ok") =>
             \A m \in AnsweredBy({"createBlock"}) :
                \A b \in srvBlocks : b.doc = m.doc => m.order > b.order
         ]_vars
    /\ [](\A a, b \in srvBlocks :
             (a.doc = b.doc /\ a.id # b.id) => a.order # b.order)
    /\ []((Shown(page, loading) /\ \A m \in net : m.kind \notin PageKinds) =>
             \A s \in OrderedBlocks({b \in srvBlocks : b.doc = page.id}) :
                IdsOf(s) = IdsOf(page.blocks))

\* =================================================== empty blocks in view
\* the block is stored with empty content
PersistedEmpty(b) == \E s \in srvBlocks : s.id = b /\ s.content = <<>>

\* C38: a block with empty persisted content never remains in the block
\* sequence of the document in viewing state once it has left editing
\* state, whichever way it left (cancel, save, starting to edit another
\* block, creating another block, deleting another block).
C38_NoEmptyBlockInView ==
    [][\A b \in AllBlockIds :
          (editingBlockId = b /\ editingBlockId' # b /\ PersistedEmpty(b)')
             => b \notin ViewRendered(page', editingBlockId', loading')
      ]_vars

\* ================================================ late responses of fetchPage
\* selecting one page and then the other while the requests of the first
\* selection are in flight
NextSwitch ==
    \/ \E p \in documents : SelectPageWithin(p, MaxFetches)
    \/ \E m \in net, r \in AllReplies : RecvGetDocs(m, r)
    \/ \E m \in net, r \in AllReplies : RecvGetDoc(m, r)

SpecSwitch == NavInit /\ [][NextSwitch]_vars

\* C39: when the selected page id changes from A to B while the fetch of
\* A's document is still in flight, then once all fetches have completed
\* the loaded document is B's: a late response for A never replaces B's
\* document, whatever the order in which the two responses arrive.
C39_LateFetchIgnored ==
    [][(lastOp'.op = "recvGetDoc" /\ lastOp'.st = "ok") =>
          \A m \in AnsweredBy({"getDoc"}) :
             \* the response for the selected page loads its document
             /\ m.doc = selectedPageId => page'.id = selectedPageId
             \* a response for another page leaves the document of the
             \* selected page in place
             /\ (Shown(page, loading) /\ page.id = selectedPageId) =>
                   page'.id = selectedPageId
      ]_vars

\* ============================================================ remove color
\* a tag that is not the colour element of foreColor
NotColor(t) == t.tag # "font"

\* C40: the remove-color action of the floating toolbar changes only colour
\* formatting: the text of the block, its other formatting tags, its links
\* and its inline-image wrappers (with their data-file-id and data-wrap) are
\* the same in the content it persists as in the content of the block
\* before the action.
C40_RemoveColorOnly ==
    [][lastOp'.op = "removeColor" =>
          \A m \in SentBy({"updateBlock"}) :
             LET before == BlockOf(page, m.block).content
             IN  /\ TextOf(m.content) = TextOf(before)
                 /\ SelectSeq(FormatOf(m.content), NotColor)
                       = SelectSeq(FormatOf(before), NotColor)
                 /\ WrappersOf(m.content) = WrappersOf(before)
      ]_vars

====
